---- MODULE Spec2Model ----
(***************************************************************************)
(* A model of the kitojs client runtime (src/unnamed/part_004): domain    *)
(* normalisation, the proxy that accumulates path segments, and the       *)
(* request/response pipeline of one verb call; and of the kitojs server   *)
(* (src/unnamed/part_003): setup calls on Kito instances, mounting, and   *)
(* the context pipeline a wrapped handler runs for each request.          *)
(*                                                                         *)
(* Text.  A JavaScript string is a sequence of text fragments; string     *)
(* concatenation is \o.  Fragment boundaries are placed so that every     *)
(* substring the code looks for ("://", "/", ";", a local host name) is a *)
(* run of whole fragments.                                                 *)
(*                                                                         *)
(* Values.  A JavaScript value is a record [t, v]: t is its kind, v its   *)
(* content (always a sequence).  An object is the sequence of its own     *)
(* enumerable entries [k, val] in enumeration order.                      *)
(***************************************************************************)
EXTENDS Integers, Sequences, FiniteSets, TLC

VARIABLES
    constructed,  \* client(domain, config) has returned
    rawDomain,    \* the domain string client() was given
    domain,       \* the normalised domain closed over by every proxy
    config,       \* the Client.Config closed over by every proxy
    proxies,      \* the path accumulators created so far: the set of their `paths`
    callers,      \* the bound verb callers created so far: a set of [paths, method]
    calls,        \* the invocations of verb callers, by call id
    units,        \* the Kito instances: singletonStore, decorators, derive/resolve lists
    routes,       \* the wrapped handlers registered with the internal servers
    requests,     \* the runs of wrapped handlers, by request id
    setup,        \* the setup calls made so far, in order (history)
    registered    \* the calls made on the internal servers: [unit, method, args]

clientVars == <<constructed, rawDomain, domain, config, proxies, callers, calls>>

serverVars == <<units, routes, requests, setup, registered>>

vars == <<clientVars, serverVars>>

----------------------------------------------------------------------------
(* Bounds of the model *)

\* accumulators kept at once (the root included)
MaxProxies == 3
\* bound verb callers kept at once
MaxCallers == 2

----------------------------------------------------------------------------
(* Text *)

RECURSIVE Join(_, _)
\* Array.prototype.join on an array of strings
Join(parts, sep) ==
    IF Len(parts) = 0 THEN <<>>
    ELSE IF Len(parts) = 1 THEN parts[1]
    ELSE parts[1] \o sep \o Join(Tail(parts), sep)

\* String.prototype.includes
Includes(s, sub) ==
    \E i \in 0..(Len(s) - Len(sub)) : SubSeq(s, i + 1, i + Len(sub)) = sub

\* String.prototype.endsWith
EndsWith(s, suf) ==
    /\ Len(s) >= Len(suf)
    /\ SubSeq(s, Len(s) - Len(suf) + 1, Len(s)) = suf

\* the fragments of s before the first fragment equal to sep: s.split(sep)[0]
RECURSIVE SplitFirst(_, _)
SplitFirst(s, sep) ==
    IF s = <<>> \/ Head(s) = sep THEN <<>>
    ELSE <<Head(s)>> \o SplitFirst(Tail(s), sep)

\* String.prototype.toUpperCase, fragment by fragment
ToUpperCase(s) ==
    [i \in 1..Len(s) |->
        CASE s[i] = "get" -> "GET"
          [] s[i] = "post" -> "POST"
          [] s[i] = "put" -> "PUT"
          [] s[i] = "delete" -> "DELETE"
          [] s[i] = "patch" -> "PATCH"
          [] s[i] = "head" -> "HEAD"
          [] s[i] = "options" -> "OPTIONS"
          [] OTHER -> s[i]]

----------------------------------------------------------------------------
(* JavaScript values *)

Undefined == [t |-> "undefined", v |-> <<>>]
Null == [t |-> "null", v |-> <<>>]
Str(s) == [t |-> "string", v |-> s]
Num(s) == [t |-> "number", v |-> s]
Bool(s) == [t |-> "boolean", v |-> s]
Arr(items) == [t |-> "array", v |-> items]
Obj(entries) == [t |-> "object", v |-> entries]
Blob(name) == [t |-> "blob", v |-> <<name>>]
Entry(key, value) == [k |-> key, val |-> value]

\* typeof x === "object"
TypeofObject(x) == x.t \in {"null", "array", "object", "blob", "response"}

\* !!x
Truthy(x) ==
    CASE x.t \in {"undefined", "null"} -> FALSE
      [] x.t = "string" -> x.v # <<>>
      [] x.t = "number" -> x.v \notin {<<"0">>, <<"NaN">>}
      [] x.t = "boolean" -> x.v = <<"true">>
      [] OTHER -> TRUE

\* the decimal text of a small array index
IndexText(i) ==
    CASE i = 0 -> "0" [] i = 1 -> "1" [] i = 2 -> "2" [] i = 3 -> "3" [] OTHER -> "n"

\* Object.entries(x): own enumerable string-keyed entries, in enumeration order
ObjectEntries(x) ==
    CASE x.t = "object" -> x.v
      [] x.t = "array" -> [i \in 1..Len(x.v) |-> Entry(<<IndexText(i - 1)>>, x.v[i])]
      [] OTHER -> <<>>

\* Object.values(x)
ObjectValues(x) == [i \in 1..Len(ObjectEntries(x)) |-> ObjectEntries(x)[i].val]

RECURSIVE StringOf(_)
\* String(x)
StringOf(x) ==
    CASE x.t = "string" -> x.v
      [] x.t \in {"number", "boolean"} -> x.v
      [] x.t = "null" -> <<"null">>
      [] x.t = "undefined" -> <<"undefined">>
      [] x.t = "array" ->
            Join([i \in 1..Len(x.v) |->
                    IF x.v[i].t \in {"null", "undefined"} THEN <<>>
                    ELSE StringOf(x.v[i])], <<",">>)
      [] x.t = "blob" -> <<"[object Blob]">>
      [] x.t = "response" -> <<"[object Response]">>
      [] OTHER -> <<"[object Object]">>

RECURSIVE JSONStringify(_)
\* JSON.stringify(x) of a defined value
JSONStringify(x) ==
    CASE x.t = "string" -> <<"\"">> \o x.v \o <<"\"">>
      [] x.t \in {"number", "boolean"} -> x.v
      [] x.t \in {"null", "undefined"} -> <<"null">>
      [] x.t = "array" ->
            <<"[">> \o Join([i \in 1..Len(x.v) |-> JSONStringify(x.v[i])], <<",">>)
                    \o <<"]">>
      [] x.t = "object" ->
            LET kept == SelectSeq(x.v, LAMBDA e : e.val.t # "undefined")
            IN  <<"{">> \o Join([i \in 1..Len(kept) |->
                                    <<"\"">> \o kept[i].k \o <<"\"", ":">>
                                        \o JSONStringify(kept[i].val)], <<",">>)
                        \o <<"}">>
      [] OTHER -> <<"{", "}">>

\* { ...a, ...b } of two objects held as functions from key to value
Spread(a, b) ==
    [key \in (DOMAIN a) \cup (DOMAIN b) |-> IF key \in DOMAIN b THEN b[key] ELSE a[key]]

\* the empty object {}
EmptyObject == [key \in {} |-> Undefined]

\* o?.f of an options object held as a function from key to value
Get(o, f) == IF f \in DOMAIN o THEN o[f] ELSE Undefined

----------------------------------------------------------------------------
(* Constants of the client *)

HTTP_METHODS ==
    {<<"get">>, <<"post">>, <<"put">>, <<"delete">>, <<"patch">>, <<"head">>,
     <<"options">>}

LOCAL_HOSTS == {<<"localhost">>, <<"127.0.0.1">>, <<"0.0.0.0">>}

----------------------------------------------------------------------------
(* client(domain, config): domain normalisation *)

\* the domain as client() leaves it before createProxy
NormalizeDomain(d) ==
    LET withScheme ==
            IF ~Includes(d, <<":", "/", "/">>)
            THEN LET isLocal == \E host \in LOCAL_HOSTS : Includes(d, host)
                 IN  (IF isLocal THEN <<"http", ":", "/", "/">>
                                 ELSE <<"https", ":", "/", "/">>) \o d
            ELSE d
    IN  IF EndsWith(withScheme, <<"/">>)
        THEN SubSeq(withScheme, 1, Len(withScheme) - 1)
        ELSE withScheme

----------------------------------------------------------------------------
(* createProxy: the path accumulator *)

\* a get trap that takes "index" for a segment like any other name
createProxyGetIndexAppended(paths, prop) ==
    IF prop \in HTTP_METHODS
    THEN [kind |-> "caller", paths |-> paths, method |-> prop]
    ELSE [kind |-> "proxy", paths |-> Append(paths, prop), method |-> <<>>]

\* the get trap: what reading property `prop` of an accumulator over `paths` yields
createProxyGet(paths, prop) ==
    IF prop \in HTTP_METHODS
    THEN [kind |-> "caller", paths |-> paths, method |-> prop]
    ELSE IF prop = <<"index">>
    THEN [kind |-> "proxy", paths |-> paths, method |-> <<>>]
    ELSE [kind |-> "proxy", paths |-> Append(paths, prop), method |-> <<>>]

\* the apply trap appending the first key of `params` instead of its first value
createProxyApplyKey(paths, params) ==
    IF Truthy(params) /\ TypeofObject(params) /\ Len(ObjectValues(params)) > 0
    THEN Append(paths, ObjectEntries(params)[1].k)
    ELSE paths

\* an apply trap that appends every value of `params`
createProxyApplyEvery(paths, params) ==
    IF Truthy(params) /\ TypeofObject(params) /\ Len(ObjectValues(params)) > 0
    THEN paths \o [i \in 1..Len(ObjectValues(params)) |->
                        StringOf(ObjectValues(params)[i])]
    ELSE paths

\* the apply trap: the `paths` of the accumulator that calling one over `paths`
\* with first argument `params` yields
createProxyApply(paths, params) ==
    IF Truthy(params) /\ TypeofObject(params) /\ Len(ObjectValues(params)) > 0
    THEN Append(paths, StringOf(ObjectValues(params)[1]))
    ELSE paths

----------------------------------------------------------------------------
(* Helpers of the request executor *)

\* isFile: value instanceof Blob
isFile(value) == value.t = "blob"

\* hasFiles(obj); for..in over a Blob meets no Blob-valued property
hasFiles(obj) ==
    IF ~Truthy(obj) \/ ~TypeofObject(obj) THEN FALSE
    ELSE \E i \in 1..Len(ObjectEntries(obj)) :
            LET value == ObjectEntries(obj)[i].val
            IN  \/ isFile(value)
                \/ value.t = "array" /\ \E j \in 1..Len(value.v) : isFile(value.v[j])

\* application/x-www-form-urlencoded serialisation of one string
FormEncode(s) ==
    [i \in 1..Len(s) |->
        CASE s[i] = " " -> "+"
          [] s[i] = "&" -> "%26"
          [] s[i] = "=" -> "%3D"
          [] s[i] = "\"" -> "%22"
          [] s[i] = ":" -> "%3A"
          [] s[i] = "," -> "%2C"
          [] s[i] = "{" -> "%7B"
          [] s[i] = "}" -> "%7D"
          [] s[i] = "[" -> "%5B"
          [] s[i] = "]" -> "%5D"
          [] OTHER -> s[i]]

\* URLSearchParams.prototype.toString of a list of [name, value] pairs
SearchParamsToString(params) ==
    Join([i \in 1..Len(params) |->
            FormEncode(params[i][1]) \o <<"=">> \o FormEncode(params[i][2])], <<"&">>)

RECURSIVE AppendQueryEntries(_, _)
\* the loop of buildQueryString: `params` after the remaining `entries`
AppendQueryEntries(params, entries) ==
    IF entries = <<>> THEN params
    ELSE LET key == Head(entries).k
             value == Head(entries).val
             next ==
                IF value.t \in {"undefined", "null"} THEN params
                ELSE IF value.t = "array"
                THEN params \o [i \in 1..Len(value.v) |-> <<key, StringOf(value.v[i])>>]
                ELSE IF TypeofObject(value)
                THEN Append(params, <<key, JSONStringify(value)>>)
                ELSE Append(params, <<key, StringOf(value)>>)
         IN  AppendQueryEntries(next, Tail(entries))

\* buildQueryString with the "?" put before an empty parameter list too
buildQueryStringAlwaysMarked(query) ==
    <<"?">> \o SearchParamsToString(AppendQueryEntries(<<>>, ObjectEntries(query)))

\* buildQueryString(query)
buildQueryString(query) ==
    LET str == SearchParamsToString(AppendQueryEntries(<<>>, ObjectEntries(query)))
    IN  IF str # <<>> THEN <<"?">> \o str ELSE <<>>

----------------------------------------------------------------------------
(* Response bodies and their decoders (the platform's Response methods) *)

\* the values a JSON response body of the model can encode
JsonUniverse ==
    {Null,
     Obj(<<Entry(<<"id">>, Str(<<"1">>))>>),
     Arr(<<>>),
     Str(<<"ok">>)}

\* Response.json(): the value whose JSON text the body is; rejects on any other body
ResponseJson(body) ==
    IF \E x \in JsonUniverse : JSONStringify(x) = body
    THEN [ok |-> TRUE, value |-> CHOOSE x \in JsonUniverse : JSONStringify(x) = body]
    ELSE [ok |-> FALSE, value |-> Str(<<"SyntaxError">>)]

\* the multipart wire form of a list of [k, val] fields with string values
MultipartEncode(fields) ==
    Join([i \in 1..Len(fields) |-> <<"--b", "\n">> \o fields[i].k \o <<"\n">>
                                        \o fields[i].val.v \o <<"\n">>], <<>>)
        \o <<"--b--">>

\* the field lists a multipart response body of the model can encode
FormUniverse ==
    {<<Entry(<<"a">>, Str(<<"1">>))>>,
     <<Entry(<<"a">>, Str(<<"1">>)), Entry(<<"a">>, Str(<<"2">>))>>}

\* Response.formData(): the fields of a well-formed multipart body; rejects otherwise
ResponseFormData(body) ==
    IF \E f \in FormUniverse : MultipartEncode(f) = body
    THEN [ok |-> TRUE, value |-> CHOOSE f \in FormUniverse : MultipartEncode(f) = body]
    ELSE [ok |-> FALSE, value |-> <<>>]

RECURSIVE AssignFields(_, _)
\* formData.forEach((value, key) => { result[key] = value }) on the object `result`
AssignFields(result, fields) ==
    IF fields = <<>> THEN result
    ELSE LET f == Head(fields)
             has == \E i \in 1..Len(result) : result[i].k = f.k
             next == IF has
                     THEN [i \in 1..Len(result) |->
                            IF result[i].k = f.k THEN f ELSE result[i]]
                     ELSE Append(result, f)
         IN  AssignFields(next, Tail(fields))

\* parseResponse(response): [ok, value]; ok = FALSE is a rejected promise
parseResponse(response) ==
    LET raw == response.contentType   \* response.headers.get("content-type")
        contentType == IF raw = Null THEN Undefined ELSE Str(SplitFirst(raw.v, ";"))
    IN  CASE contentType = Str(<<"application/json">>) -> ResponseJson(response.body)
          [] contentType = Str(<<"application/octet-stream">>) ->
                [ok |-> TRUE, value |-> [t |-> "arraybuffer", v |-> response.body]]
          [] contentType = Str(<<"multipart/form-data">>) ->
                LET formData == ResponseFormData(response.body)
                IN  IF formData.ok
                    THEN [ok |-> TRUE, value |-> Obj(AssignFields(<<>>, formData.value))]
                    ELSE [ok |-> FALSE, value |-> Str(<<"TypeError">>)]
          [] contentType = Str(<<"text/event-stream">>) ->
                [ok |-> TRUE, value |-> [t |-> "response", v |-> <<response>>]]
          [] OTHER -> [ok |-> TRUE, value |-> Str(response.body)]

----------------------------------------------------------------------------
(* createMethodCaller: the synchronous pieces of one verb call *)

isGetOrHead(method) == method = <<"get">> \/ method = <<"head">>

\* for GET/HEAD the first parameter is the options, not the body
actualOptionsOf(method, bodyOrOptions, options) ==
    IF isGetOrHead(method) THEN bodyOrOptions ELSE options

bodyOf(method, bodyOrOptions) ==
    IF isGetOrHead(method) THEN Undefined ELSE bodyOrOptions

pathOf(paths) == <<"/">> \o Join(paths, <<"/">>)

\* the URL with query parameters
urlOf(dom, paths, actualOptions) ==
    LET query == Get(actualOptions, "query")
    IN  dom \o pathOf(paths)
            \o (IF Truthy(query) THEN buildQueryString(query) ELSE <<>>)

\* { ...a, ...b } where b may be undefined
SpreadOver(a, b) == IF b = Undefined THEN a ELSE Spread(a, b)

\* requestHeaders with the config headers spread over the per-call headers
requestHeadersOfConfigOver(configHeaders, actualOptions) ==
    Spread(SpreadOver(EmptyObject, Get(actualOptions, "headers")), configHeaders)

\* requestHeaders: per-call headers spread over the resolved config headers
requestHeadersOf(configHeaders, actualOptions) ==
    SpreadOver(configHeaders, Get(actualOptions, "headers"))

\* the request init before the body is handled
initOf(method, requestHeaders, fetchOptions, actualOptions) ==
    SpreadOver(
        SpreadOver([method |-> ToUpperCase(method), headers |-> requestHeaders],
                   fetchOptions),
        Get(actualOptions, "fetch"))

RECURSIVE AppendFormEntries(_, _)
\* the FormData built from the entries of a body with files
AppendFormEntries(formData, entries) ==
    IF entries = <<>> THEN formData
    ELSE LET key == Head(entries).k
             value == Head(entries).val
             part(x) == Entry(key, IF isFile(x) THEN x ELSE Str(StringOf(x)))
             next == IF value.t = "array"
                     THEN formData \o [i \in 1..Len(value.v) |-> part(value.v[i])]
                     ELSE Append(formData, part(value))
         IN  AppendFormEntries(next, Tail(entries))

\* init.headers as an object to spread (a missing headers member spreads nothing)
initHeaders(init) == IF "headers" \in DOMAIN init THEN init.headers ELSE EmptyObject

\* a body handling that JSON-encodes every body without files
withBodyAlwaysJson(init, body, method) ==
    IF body # Undefined /\ body # Null /\ ~isGetOrHead(method)
    THEN IF hasFiles(body)
         THEN Spread(init, [body |-> [t |-> "formdata",
                                      v |-> AppendFormEntries(<<>>, ObjectEntries(body))]])
         ELSE Spread(init,
                [headers |-> Spread(initHeaders(init),
                                    "content-type" :> "application/json"),
                 body |-> Str(JSONStringify(body))])
    ELSE init

\* "Handle body": the init after the body of the call is encoded into it
withBody(init, body, method) ==
    IF body # Undefined /\ body # Null /\ ~isGetOrHead(method)
    THEN IF hasFiles(body)
         THEN Spread(init, [body |-> [t |-> "formdata",
                                      v |-> AppendFormEntries(<<>>, ObjectEntries(body))]])
         ELSE IF TypeofObject(body)
         THEN Spread(init,
                [headers |-> Spread(initHeaders(init),
                                    "content-type" :> "application/json"),
                 body |-> Str(JSONStringify(body))])
         ELSE Spread(init,
                [headers |-> Spread(initHeaders(init), "content-type" :> "text/plain"),
                 body |-> Str(StringOf(body))])
    ELSE init

\* the init with the first argument encoded as the body whatever the verb
encodedInitOfFirstArgument(method, bodyOrOptions, options, configHeaders, fetchOptions) ==
    LET actualOptions == actualOptionsOf(method, bodyOrOptions, options)
        requestHeaders == requestHeadersOf(configHeaders, actualOptions)
        init == initOf(method, requestHeaders, fetchOptions, actualOptions)
    IN  IF isGetOrHead(method) /\ "t" \in DOMAIN bodyOrOptions
        THEN withBody(init, bodyOrOptions, <<"post">>)
        ELSE withBody(init, bodyOf(method, bodyOrOptions), method)

\* the init built from the arguments of the call, its body encoded
encodedInit(method, bodyOrOptions, options, configHeaders, fetchOptions) ==
    LET actualOptions == actualOptionsOf(method, bodyOrOptions, options)
        body == bodyOf(method, bodyOrOptions)
        requestHeaders == requestHeadersOf(configHeaders, actualOptions)
    IN  withBody(initOf(method, requestHeaders, fetchOptions, actualOptions),
                 body, method)

\* init.headers is the headers object of config.fetchOptions itself: the spread
\* of the base options put it there, and neither the spread of the per-call
\* fetch override nor the body encoder put a new object in its place
headersAliased(method, bodyOrOptions, options, fetchOptions) ==
    LET actualOptions == actualOptionsOf(method, bodyOrOptions, options)
        body == bodyOf(method, bodyOrOptions)
    IN  /\ "headers" \in DOMAIN SpreadOver(EmptyObject, fetchOptions)
        /\ "headers" \notin DOMAIN SpreadOver(EmptyObject, Get(actualOptions, "fetch"))
        /\ ~(body # Undefined /\ body # Null /\ ~isGetOrHead(method) /\ ~hasFiles(body))

\* the init spread over what the onRequest hook returned
afterOnRequestInitOver(init, modified) ==
    IF modified # Undefined /\ modified # Null THEN Spread(modified, init) ELSE init

\* the init after the onRequest hook returned `modified`
afterOnRequest(init, modified) ==
    IF modified # Undefined /\ modified # Null THEN Spread(init, modified) ELSE init

\* the envelope absent
NoEnvelope == Undefined

\* the envelope with status 300 taken for a success
envelopeOfAbove300(response, data) ==
    IF response.status > 300 \/ response.status < 200
    THEN [data |-> Null,
          error |-> [status |-> response.status, value |-> data],
          status |-> response.status,
          response |-> response,
          headers |-> response.contentType]
    ELSE [data |-> data,
          error |-> Null,
          status |-> response.status,
          response |-> response,
          headers |-> response.contentType]

\* the envelope with the parsed body left in `data` on an error status
envelopeOfDataKept(response, data) ==
    IF response.status >= 300 \/ response.status < 200
    THEN [data |-> data,
          error |-> [status |-> response.status, value |-> data],
          status |-> response.status,
          response |-> response,
          headers |-> response.contentType]
    ELSE [data |-> data,
          error |-> Null,
          status |-> response.status,
          response |-> response,
          headers |-> response.contentType]

\* "Handle error status" and the returned envelope
envelopeOf(response, data) ==
    IF response.status >= 300 \/ response.status < 200
    THEN [data |-> Null,
          error |-> [status |-> response.status, value |-> data],
          status |-> response.status,
          response |-> response,
          headers |-> response.contentType]
    ELSE [data |-> data,
          error |-> Null,
          status |-> response.status,
          response |-> response,
          headers |-> response.contentType]

----------------------------------------------------------------------------
(* The state machine *)

\* a call slot before its verb caller is invoked
IdleCall ==
    [pc |-> "idle", paths |-> <<>>, method |-> <<>>,
     bodyOrOptions |-> Undefined, options |-> Undefined,
     url |-> <<>>, configHeaders |-> EmptyObject, init |-> EmptyObject,
     onRequestArgs |-> Undefined, modified |-> Undefined, sent |-> Undefined,
     response |-> Undefined,
     result |-> Undefined, data |-> Null, envelope |-> NoEnvelope,
     threw |-> "", rejectedBy |-> "", onRequestCalls |-> 0, fetchCalls |-> 0,
     onResponseCalls |-> 0, parseCalls |-> 0, bodyUsed |-> {}, providerCalls |-> 0,
     aliased |-> FALSE]

\* the module is loaded, client() has not been called; `ids` are the call slots
InitWith(ids) ==
    /\ constructed = FALSE
    /\ rawDomain = <<>>
    /\ domain = <<>>
    /\ config = Undefined
    /\ proxies = {}
    /\ callers = {}
    /\ calls = [c \in ids |-> IdleCall]

\* client(d, cfg): normalise the domain and return the root accumulator
Client(d, cfg) ==
    /\ ~constructed
    /\ constructed' = TRUE
    /\ rawDomain' = d
    /\ domain' = NormalizeDomain(d)
    /\ config' = cfg
    /\ proxies' = {<<>>}
    /\ UNCHANGED <<callers, calls, serverVars>>

\* a get trap that pushes the segment onto the accumulator's own list, which
\* the verb callers bound over it share
ProxyGetInPlace(paths, prop) ==
    /\ paths \in proxies
    /\ LET got == createProxyGet(paths, prop)
       IN  IF got.kind = "caller"
           THEN /\ callers' = callers \cup {[paths |-> got.paths, method |-> got.method]}
                /\ Cardinality(callers') <= MaxCallers
                /\ UNCHANGED proxies
           ELSE /\ proxies' = (proxies \ {paths}) \cup {got.paths}
                /\ callers' = {IF k.paths = paths THEN [k EXCEPT !.paths = got.paths]
                                ELSE k : k \in callers}
    /\ UNCHANGED <<constructed, rawDomain, domain, config, calls, serverVars>>

\* the get trap of the accumulator over `paths`, reading property `prop`
ProxyGet(paths, prop) ==
    /\ paths \in proxies
    /\ LET got == createProxyGet(paths, prop)
       IN  IF got.kind = "caller"
           THEN /\ callers' = callers \cup {[paths |-> got.paths, method |-> got.method]}
                /\ Cardinality(callers') <= MaxCallers
                /\ UNCHANGED proxies
           ELSE /\ proxies' = proxies \cup {got.paths}
                /\ Cardinality(proxies') <= MaxProxies
                /\ UNCHANGED callers
    /\ UNCHANGED <<constructed, rawDomain, domain, config, calls, serverVars>>

\* the apply trap of the accumulator over `paths`, called with first argument `params`
ProxyApply(paths, params) ==
    /\ paths \in proxies
    /\ proxies' = proxies \cup {createProxyApply(paths, params)}
    /\ Cardinality(proxies') <= MaxProxies
    /\ UNCHANGED <<constructed, rawDomain, domain, config, callers, calls, serverVars>>

\* the request is handed to the network call primitive
issue(call, init) ==
    [call EXCEPT !.pc = "fetch",
                 !.init = init,
                 !.sent = [url |-> call.url, init |-> init],
                 !.fetchCalls = @ + 1]

\* a verb caller is invoked as call c: runs up to `await resolveHeaders(...)`
Invoke(c, caller, bodyOrOptions, options) ==
    /\ caller \in callers
    /\ calls[c].pc = "idle"
    /\ LET paths == caller.paths
           method == caller.method
       IN  calls' = [calls EXCEPT ![c] =
                [@ EXCEPT !.pc = "resolveHeaders",
                          !.paths = paths,
                          !.method = method,
                          !.bodyOrOptions = bodyOrOptions,
                          !.options = options,
                          !.providerCalls =
                                IF config.headers # Undefined
                                        /\ config.headers.kind = "function"
                                THEN @ + 1 ELSE @,
                          !.url = urlOf(domain, paths,
                                    actualOptionsOf(method, bodyOrOptions, options))]]
    /\ UNCHANGED <<constructed, rawDomain, domain, config, proxies, callers, serverVars>>

\* what resolveHeaders(config.headers) can resolve to; `provided` is what a
\* provider function returns
resolveHeaders(headers, provided) ==
    IF headers = Undefined THEN EmptyObject
    ELSE IF headers.kind = "function"
    THEN (IF provided = Undefined THEN EmptyObject ELSE provided)
    ELSE headers.map

\* resolveHeaders settles: the init is built, the body encoded, and either the
\* onRequest hook is called or the request is issued
HeadersResolved(c, provided) ==
    /\ calls[c].pc = "resolveHeaders"
    /\ LET call == calls[c]
           configHeaders == resolveHeaders(config.headers, provided)
           init == encodedInit(call.method, call.bodyOrOptions, call.options,
                               configHeaders, config.fetchOptions)
           resolved == [call EXCEPT !.configHeaders = configHeaders, !.init = init,
                                    !.aliased = headersAliased(call.method,
                                                    call.bodyOrOptions, call.options,
                                                    config.fetchOptions)]
       IN  calls' = [calls EXCEPT ![c] =
                IF config.onRequest
                THEN [resolved EXCEPT !.pc = "onRequest",
                                      !.onRequestArgs = [path |-> pathOf(call.paths),
                                                         init |-> init],
                                      !.onRequestCalls = @ + 1]
                ELSE issue(resolved, init)]
    /\ UNCHANGED <<constructed, rawDomain, domain, config, proxies, callers, serverVars>>

\* a rejection of the network call caught and turned into an error envelope
rejectedCaptured(call, at) ==
    IF at = "fetch"
    THEN [call EXCEPT !.pc = "done",
                      !.envelope = [data |-> Null,
                                    error |-> [status |-> 0, value |-> Null],
                                    status |-> 0,
                                    response |-> Undefined,
                                    headers |-> Null]]
    ELSE [call EXCEPT !.pc = "rejected", !.rejectedBy = at]

\* no try/catch surrounds the awaits: the call's promise rejects with the
\* rejection of the promise awaited at `at`
rejected(call, at) == [call EXCEPT !.pc = "rejected", !.rejectedBy = at]

\* the promise call c awaits at `at` rejects
Reject(c, at) ==
    /\ calls[c].pc = at
    /\ calls' = [calls EXCEPT ![c] = rejected([@ EXCEPT !.threw = at], at)]
    /\ UNCHANGED <<constructed, rawDomain, domain, config, proxies, callers, serverVars>>

\* the header provider function rejects
HeadersRejected(c) ==
    /\ calls[c].pc = "resolveHeaders"
    /\ config.headers # Undefined
    /\ config.headers.kind = "function"
    /\ Reject(c, "resolveHeaders")

\* what an onRequest hook of the given behaviour returns for (path, init)
onRequestReturn(behaviour, init) ==
    CASE behaviour = "void" -> Undefined
      [] behaviour = "same" -> init
      [] behaviour = "addHeader" ->
            Spread(init, [headers |-> Spread(initHeaders(init), "x-hook" :> "hook")])
      [] behaviour = "headers" ->
            [headers |-> ("x-hook" :> "hook") @@ ("authorization" :> "hook")]
      [] behaviour = "body" -> [body |-> Str(<<"hooked">>)]
      [] OTHER -> Undefined

\* the init object after an onRequest hook of the given behaviour has worked on
\* it in place: "write" sets a header in init.headers, "assign" gives init a new
\* headers object
onRequestWrites(behaviour, init) ==
    CASE behaviour = "write" ->
            Spread(init, [headers |-> Spread(initHeaders(init), "x-hook" :> "hook")])
      [] behaviour = "assign" -> Spread(init, [headers |-> ("x-hook" :> "hook")])
      [] OTHER -> init

\* the onRequest hook returns; the request is issued. A write into a headers
\* object that is the base options' own is a write into the config, and into
\* the init of every call that holds the same object
OnRequestReturned(c, behaviour) ==
    /\ calls[c].pc = "onRequest"
    /\ LET call == calls[c]
           written == onRequestWrites(behaviour, call.init)
           modified == onRequestReturn(behaviour, written)
           shared == call.aliased /\ behaviour = "write"
       IN  /\ calls' = [d \in DOMAIN calls |->
                    IF d = c
                    THEN issue([call EXCEPT !.modified = modified],
                               afterOnRequest(written, modified))
                    ELSE IF shared /\ calls[d].aliased /\ calls[d].pc = "onRequest"
                    THEN [calls[d] EXCEPT !.init =
                                Spread(@, [headers |-> initHeaders(written)])]
                    ELSE calls[d]]
           /\ config' = IF shared
                        THEN [config EXCEPT !.fetchOptions =
                                    Spread(@, [headers |-> initHeaders(written)])]
                        ELSE config
    /\ UNCHANGED <<constructed, rawDomain, domain, proxies, callers, serverVars>>

\* a rejection of the onRequest hook that is swallowed: the request goes out
OnRequestRejectedSent(c) ==
    /\ calls[c].pc = "onRequest"
    /\ calls' = [calls EXCEPT ![c] = issue([@ EXCEPT !.threw = "onRequest"], @.init)]
    /\ UNCHANGED <<constructed, rawDomain, domain, config, proxies, callers, serverVars>>

OnRequestRejected(c) == Reject(c, "onRequest")

\* the network call resolves with `response`: the onResponse hook is called with
\* a clone of it, or parseResponse is
FetchResolved(c, response) ==
    /\ calls[c].pc = "fetch"
    /\ calls' = [calls EXCEPT ![c] =
            IF config.onResponse
            THEN [@ EXCEPT !.pc = "onResponse", !.response = response,
                           !.onResponseCalls = @ + 1]
            ELSE [@ EXCEPT !.pc = "parse", !.response = response,
                           !.parseCalls = @ + 1]]
    /\ UNCHANGED <<constructed, rawDomain, domain, config, proxies, callers, serverVars>>

\* a rejected network call that is issued again
FetchRejectedRetried(c) ==
    /\ calls[c].pc = "fetch"
    /\ calls' = [calls EXCEPT ![c] = issue(@, @.init)]
    /\ UNCHANGED <<constructed, rawDomain, domain, config, proxies, callers, serverVars>>

\* the network call rejects
FetchRejected(c) == Reject(c, "fetch")

\* the call returns its envelope
finish(call, data) ==
    [call EXCEPT !.pc = "done", !.data = data,
                 !.envelope = envelopeOf(call.response, data)]

\* the body streams an onResponse hook that returns `result` has read: it is
\* handed response.clone(), and reads its body unless it returns undefined
readBy(result) == IF result = Undefined THEN {} ELSE {"clone"}

\* an onResponse hook whose falsy results are ignored
OnResponseReturnedTruthy(c, result) ==
    /\ calls[c].pc = "onResponse"
    /\ calls' = [calls EXCEPT ![c] =
            LET data == IF Truthy(result) THEN result ELSE Null
                hooked == [@ EXCEPT !.result = result, !.data = data,
                                    !.bodyUsed = @ \cup readBy(result)]
            IN  IF data = Null
                THEN [hooked EXCEPT !.pc = "parse", !.parseCalls = @ + 1]
                ELSE finish(hooked, data)]
    /\ UNCHANGED <<constructed, rawDomain, domain, config, proxies, callers, serverVars>>

\* the onResponse hook returns `result`
OnResponseReturned(c, result) ==
    /\ calls[c].pc = "onResponse"
    /\ calls' = [calls EXCEPT ![c] =
            LET data == IF result # Undefined /\ result # Null THEN result ELSE Null
                hooked == [@ EXCEPT !.result = result, !.data = data,
                                    !.bodyUsed = @ \cup readBy(result)]
            IN  IF data = Null
                THEN [hooked EXCEPT !.pc = "parse", !.parseCalls = @ + 1]
                ELSE finish(hooked, data)]
    /\ UNCHANGED <<constructed, rawDomain, domain, config, proxies, callers, serverVars>>

OnResponseRejected(c) == Reject(c, "onResponse")

\* parseResponse(response) resolves
ParseResolved(c) ==
    /\ calls[c].pc = "parse"
    /\ "response" \notin calls[c].bodyUsed
    /\ parseResponse(calls[c].response).ok
    /\ calls' = [calls EXCEPT ![c] = finish(@, parseResponse(@.response).value)]
    /\ UNCHANGED <<constructed, rawDomain, domain, config, proxies, callers, serverVars>>

\* parseResponse(response) rejects
ParseRejected(c) ==
    /\ calls[c].pc = "parse"
    /\ "response" \in calls[c].bodyUsed \/ ~parseResponse(calls[c].response).ok
    /\ Reject(c, "parse")

----------------------------------------------------------------------------
(* The inputs the model draws from *)

Localhost3000 == <<"localhost", ":", "3000">>
HttpLocalhost3000 == <<"http", ":", "/", "/">> \o Localhost3000

PlainConfig ==
    [headers |-> Undefined, onRequest |-> FALSE, onResponse |-> FALSE,
     fetchOptions |-> Undefined]

StaticConfig ==
    [PlainConfig EXCEPT !.headers =
        [kind |-> "object",
         map |-> ("authorization" :> "config") @@ ("x-config" :> "config")]]

HookedConfig ==
    [headers |-> [kind |-> "function", map |-> EmptyObject],
     onRequest |-> TRUE, onResponse |-> TRUE,
     fetchOptions |-> [credentials |-> "include"]]

BaseHeadersConfig ==
    [StaticConfig EXCEPT !.fetchOptions = [headers |-> ("x-base" :> "base")]]

AllDomains ==
    {Localhost3000,
     HttpLocalhost3000,
     Localhost3000 \o <<"/">>,
     <<"127.0.0.1", ":", "8080">>,
     <<"0.0.0.0">>,
     <<"api", ".", "example", ".", "com">>,
     <<"api", ".", "example", ".", "com", "/">>,
     <<"https", ":", "/", "/", "api", ".", "example", ".", "com", "/">>,
     <<"api", ".", "example", ".", "com", "/", "/">>,
     <<"my", "localhost", ".", "com">>,
     <<"localhost", ".", "evil", ".", "com">>,
     <<"api", ".", "example", ".", "com", "/", "localhost">>}

AllQueries ==
    {Obj(<<Entry(<<"limit">>, Str(<<"10">>)), Entry(<<"offset">>, Str(<<"0">>))>>),
     Obj(<<Entry(<<"tags">>, Arr(<<Str(<<"a">>), Str(<<"b">>)>>)),
           Entry(<<"skip">>, Undefined),
           Entry(<<"none">>, Null),
           Entry(<<"n">>, Num(<<"10">>)),
           Entry(<<"flag">>, Bool(<<"false">>))>>),
     Obj(<<Entry(<<"filter">>, Obj(<<Entry(<<"a">>, Num(<<"1">>))>>)),
           Entry(<<"q">>, Str(<<"a", " ", "b", "&", "c">>))>>),
     Obj(<<>>),
     Obj(<<Entry(<<"x">>, Undefined), Entry(<<"e">>, Arr(<<>>))>>),
     Obj(<<Entry(<<"ids">>, Arr(<<Null, Num(<<"7">>)>>))>>)}

QueryOptions == {[query |-> q] : q \in AllQueries}

HeaderOptions ==
    {[headers |-> ("authorization" :> "call") @@ ("x-call" :> "call")],
     [headers |-> ("content-type" :> "text/csv")],
     [fetch |-> [headers |-> ("x-fetch" :> "fetch")]],
     [fetch |-> [body |-> Str(<<"raw">>)]],
     [fetch |-> [cache |-> "no-store"]]}

\* an object that is not an options object, as a first argument
John == Obj(<<Entry(<<"name">>, Str(<<"John">>))>>)

AllBodies ==
    {Undefined,
     Null,
     John,
     Str(<<"hello">>),
     Num(<<"42">>),
     Arr(<<Num(<<"1">>)>>),
     Obj(<<Entry(<<"file">>, Blob("a")), Entry(<<"meta">>, John)>>),
     Obj(<<Entry(<<"name">>, Str(<<"x">>)),
           Entry(<<"files">>, Arr(<<Blob("a"), Blob("b")>>))>>),
     Arr(<<Blob("a")>>),
     Obj(<<Entry(<<"meta">>, Obj(<<Entry(<<"avatar">>, Blob("a"))>>))>>),
     Obj(<<Entry(<<"grid">>, Arr(<<Arr(<<Blob("a")>>)>>))>>),
     Blob("a")}

AllParams ==
    {Obj(<<Entry(<<"id">>, Str(<<"123">>))>>),
     Obj(<<Entry(<<"id">>, Num(<<"7">>))>>),
     Obj(<<Entry(<<"id">>, Str(<<"index">>))>>),
     Obj(<<Entry(<<"id">>, Str(<<"get">>))>>),
     Obj(<<Entry(<<"postId">>, Str(<<"1">>)), Entry(<<"commentId">>, Str(<<"2">>))>>),
     Obj(<<>>),
     Str(<<"123">>),
     Null,
     Undefined}

AllStatuses == {199, 200, 299, 300, 404}

AllContentTypes ==
    {Null,
     Str(<<"application/json">>),
     Str(<<"application/json", ";", " charset=utf-8">>),
     Str(<<"application/octet-stream">>),
     Str(<<"multipart/form-data", ";", " boundary=b">>),
     Str(<<"text/event-stream">>),
     Str(<<"text/plain">>)}

AllResponseBodies ==
    {JSONStringify(Obj(<<Entry(<<"id">>, Str(<<"1">>))>>)),
     JSONStringify(Null),
     <<"Hello World">>,
     <<>>,
     MultipartEncode(<<Entry(<<"a">>, Str(<<"1">>)), Entry(<<"a">>, Str(<<"2">>))>>)}

AllResponses ==
    {[status |-> st, contentType |-> ct, body |-> b] :
        st \in AllStatuses, ct \in AllContentTypes, b \in AllResponseBodies}

OkJson ==
    [status |-> 200, contentType |-> Str(<<"application/json">>),
     body |-> JSONStringify(Arr(<<>>))]

AllResults ==
    {Undefined, Null, Num(<<"0">>), Str(<<>>), Bool(<<"false">>),
     Obj(<<Entry(<<"hooked">>, Bool(<<"true">>))>>)}

\* options with a query only
LimitOptions == [query |-> Obj(<<Entry(<<"limit">>, Str(<<"10">>))>>)]

AllProvided == {Undefined, ("authorization" :> "provider")}

AllBehaviours == {"void", "same", "addHeader", "headers", "body"}

----------------------------------------------------------------------------
(* Specifications *)

\* every step the client can take, its inputs drawn from the universe U
NextOver(U) ==
    \/ \E d \in U.domains, cfg \in U.configs : Client(d, cfg)
    \/ \E paths \in proxies, prop \in U.props : ProxyGet(paths, prop)
    \/ \E paths \in proxies, params \in U.params : ProxyApply(paths, params)
    \/ \E c \in DOMAIN calls, caller \in callers :
            IF isGetOrHead(caller.method)
            THEN \E o \in U.options : Invoke(c, caller, o, Undefined)
            ELSE \E b \in U.bodies, o \in U.options : Invoke(c, caller, b, o)
    \/ \E c \in DOMAIN calls, provided \in U.provided : HeadersResolved(c, provided)
    \/ \E c \in DOMAIN calls : HeadersRejected(c)
    \/ \E c \in DOMAIN calls, behaviour \in U.behaviours : OnRequestReturned(c, behaviour)
    \/ \E c \in DOMAIN calls : OnRequestRejected(c)
    \/ \E c \in DOMAIN calls, response \in U.responses : FetchResolved(c, response)
    \/ \E c \in DOMAIN calls : FetchRejected(c)
    \/ \E c \in DOMAIN calls, result \in U.results : OnResponseReturned(c, result)
    \/ \E c \in DOMAIN calls : OnResponseRejected(c)
    \/ \E c \in DOMAIN calls : ParseResolved(c)
    \/ \E c \in DOMAIN calls : ParseRejected(c)

\* a response whose body its content type cannot decode
BadJson ==
    [status |-> 404, contentType |-> Str(<<"application/json">>), body |-> <<"gone">>]

\* domain normalisation: many domains; short chains, few call inputs
DomainUniverse ==
    [domains |-> AllDomains,
     configs |-> {HookedConfig},
     props |-> {<<"users">>, <<"get">>},
     params |-> {Obj(<<Entry(<<"id">>, Str(<<"123">>))>>)},
     bodies |-> {John},
     options |-> {Undefined},
     provided |-> {Undefined},
     behaviours |-> {"void"},
     responses |-> {OkJson, BadJson},
     results |-> {Undefined}]

\* URL building: many chains and queries; few bodies and responses
UrlUniverse ==
    [domains |-> {<<"api", ".", "example", ".", "com", "/">>},
     configs |-> {HookedConfig},
     props |-> {<<"users">>, <<"index">>, <<"get">>, <<"post">>},
     params |-> {Obj(<<Entry(<<"id">>, Str(<<"123">>)), Entry(<<"x">>, Str(<<"9">>))>>),
                 Undefined},
     bodies |-> {John},
     options |-> {Undefined} \cup QueryOptions,
     provided |-> {Undefined},
     behaviours |-> {"void"},
     responses |-> {OkJson, BadJson},
     results |-> {Undefined}]

\* request building: many bodies, header sources and hook behaviours
RequestUniverse ==
    [domains |-> {HttpLocalhost3000},
     configs |-> {PlainConfig, StaticConfig, HookedConfig, BaseHeadersConfig},
     props |-> {<<"get">>, <<"head">>, <<"post">>, <<"delete">>},
     params |-> {Undefined},
     bodies |-> AllBodies,
     options |-> {Undefined, EmptyObject, John, LimitOptions} \cup HeaderOptions,
     provided |-> AllProvided,
     behaviours |-> AllBehaviours,
     responses |-> {OkJson, BadJson},
     results |-> {Undefined}]

\* response handling: many responses and hook results
ResponseUniverse ==
    [domains |-> {HttpLocalhost3000},
     configs |-> {PlainConfig, HookedConfig},
     props |-> {<<"get">>, <<"post">>},
     params |-> {Undefined},
     bodies |-> {John},
     options |-> {Undefined},
     provided |-> {Undefined},
     behaviours |-> {"void"},
     responses |-> AllResponses,
     results |-> AllResults]

\* a config with hooks, a static header map and headers in the base options
HookedBaseHeadersConfig ==
    [headers |-> [kind |-> "object", map |-> ("authorization" :> "config")],
     onRequest |-> TRUE, onResponse |-> TRUE,
     fetchOptions |-> [headers |-> ("x-base" :> "base")]]

\* the config under two calls at once: hooks that work on the init in place
ConfigUniverse ==
    [domains |-> {HttpLocalhost3000},
     configs |-> {HookedConfig, HookedBaseHeadersConfig},
     props |-> {<<"get">>, <<"post">>},
     params |-> {Undefined},
     bodies |-> {John},
     options |-> {Undefined, [headers |-> ("x-call" :> "call")]},
     provided |-> {Undefined},
     behaviours |-> {"void", "write", "assign"},
     responses |-> {OkJson, BadJson},
     results |-> {Undefined}]

\* chain building: many member names and call arguments; few call inputs
ChainUniverse ==
    [domains |-> {HttpLocalhost3000},
     configs |-> {HookedConfig},
     props |-> {<<"users">>, <<"index">>, <<"get">>, <<"options">>},
     params |-> {Obj(<<Entry(<<"id">>, Str(<<"123">>)), Entry(<<"x">>, Str(<<"9">>))>>),
                 Arr(<<Str(<<"a">>), Str(<<"b">>)>>),
                 Obj(<<>>),
                 Str(<<"123">>),
                 Null,
                 Undefined},
     bodies |-> {John},
     options |-> {Undefined},
     provided |-> {Undefined},
     behaviours |-> {"void"},
     responses |-> {OkJson, BadJson},
     results |-> {Undefined}]

----------------------------------------------------------------------------
(* The server: Kito instances and the setup calls on them *)

\* setup calls made in one run
MaxSetup == 4
\* functions kept in one derive or resolve list
MaxFns == 4
\* wrapped handlers registered with the internal servers
MaxRoutes == 2

\* an assignment that keeps the target's value of a key both objects hold
ObjectAssignKept(target, source) == Spread(source, target)

\* Object.assign(target, source) of two objects held as functions from key to value
ObjectAssign(target, source) == Spread(target, source)

\* an object value as a function from key to value (a later entry of a key wins)
AsObject(x) ==
    LET entries == ObjectEntries(x)
    IN  [key \in {entries[i].k : i \in 1..Len(entries)} |->
            entries[CHOOSE i \in 1..Len(entries) :
                        /\ entries[i].k = key
                        /\ \A j \in (i + 1)..Len(entries) : entries[j].k # key].val]

\* new Kito(): the runtime fields of a fresh instance (decorators live on its
\* internal server and do not exist before the first decorate())
NewKito ==
    [config |-> EmptyObject,
     singletonStore |-> EmptyObject,
     decorators |-> Undefined,
     deriveFunctions |-> <<>>,
     resolveFunctions |-> <<>>]

\* a setup call, as the history keeps it
SetupCall(op, unit, arg) == [op |-> op, unit |-> unit, arg |-> arg]

\* state(key, value)
State(u, key, value) ==
    /\ Len(setup) < MaxSetup
    /\ units' = [units EXCEPT ![u].singletonStore = ObjectAssign(@, key :> value)]
    /\ setup' = Append(setup, SetupCall("state", u, key))
    /\ UNCHANGED <<routes, requests, registered, clientVars>>

\* decorate(key, value)
Decorate(u, key, value) ==
    /\ Len(setup) < MaxSetup
    /\ units' = [units EXCEPT ![u].decorators =
                    ObjectAssign(IF @ = Undefined THEN EmptyObject ELSE @, key :> value)]
    /\ setup' = Append(setup, SetupCall("decorate", u, key))
    /\ UNCHANGED <<routes, requests, registered, clientVars>>

\* a derive() that registers the function on every unit
DeriveEverywhere(u, fn) ==
    /\ Len(setup) < MaxSetup
    /\ \A h \in DOMAIN units : Len(units[h].deriveFunctions) < MaxFns
    /\ units' = [h \in DOMAIN units |->
                    [units[h] EXCEPT !.deriveFunctions = Append(@, fn)]]
    /\ setup' = Append(setup, SetupCall("derive", u, fn))
    /\ UNCHANGED <<routes, requests, registered, clientVars>>

\* derive(fn)
Derive(u, fn) ==
    /\ Len(setup) < MaxSetup
    /\ Len(units[u].deriveFunctions) < MaxFns
    /\ units' = [units EXCEPT ![u].deriveFunctions = Append(@, fn)]
    /\ setup' = Append(setup, SetupCall("derive", u, fn))
    /\ UNCHANGED <<routes, requests, registered, clientVars>>

\* a resolve() that appends to the derive list
ResolveIntoDerive(u, fn) ==
    /\ Len(setup) < MaxSetup
    /\ Len(units[u].deriveFunctions) < MaxFns
    /\ units' = [units EXCEPT ![u].deriveFunctions = Append(@, fn)]
    /\ setup' = Append(setup, SetupCall("resolve", u, fn))
    /\ UNCHANGED <<routes, requests, registered, clientVars>>

\* resolve(fn)
Resolve(u, fn) ==
    /\ Len(setup) < MaxSetup
    /\ Len(units[u].resolveFunctions) < MaxFns
    /\ units' = [units EXCEPT ![u].resolveFunctions = Append(@, fn)]
    /\ setup' = Append(setup, SetupCall("resolve", u, fn))
    /\ UNCHANGED <<routes, requests, registered, clientVars>>

\* wrapHandler(handler) on unit u: the closure holds the unit's store and its two
\* lists by reference, and the decorators object of that moment, or a fresh
\* empty object when there is none yet
wrapHandler(u, handler) ==
    [unit |-> u, handler |-> handler, decorated |-> units[u].decorators # Undefined]

\* String.prototype.toLowerCase on the name of an HTTP method
ToLowerCase(method) ==
    CASE method = "GET" -> "get"
      [] method = "POST" -> "post"
      [] method = "PUT" -> "put"
      [] method = "DELETE" -> "delete"
      [] method = "PATCH" -> "patch"
      [] OTHER -> method

\* the path a route of unit u is registered under
fullPathOf(u, path) ==
    LET cfg == units[u].config
    IN  IF "prefix" \in DOMAIN cfg /\ cfg.prefix # <<>>
        THEN cfg.prefix \o path
        ELSE path

\* the arguments of the registration call on the internal server: three with
\* a schema, (fullPath, [schema], wrappedHandler), and two without
registrationOf(fullPath, schema, wrappedHandler) ==
    IF schema # Undefined
    THEN [argc |-> 3, path |-> fullPath, middlewares |-> <<schema>>,
          handler |-> wrappedHandler]
    ELSE [argc |-> 2, path |-> fullPath, middlewares |-> <<>>,
          handler |-> wrappedHandler]

\* an addRoute that registers the path as given
addRouteAsGiven(u, method, path, schema, handler) ==
    /\ Len(setup) < MaxSetup
    /\ Cardinality(routes) < MaxRoutes
    /\ wrapHandler(u, handler) \notin routes
    /\ routes' = routes \cup {wrapHandler(u, handler)}
    /\ registered' = registered \cup
            {[unit |-> u, method |-> ToLowerCase(method),
              args |-> registrationOf(path, schema, wrapHandler(u, handler))]}
    /\ setup' = Append(setup, SetupCall("route", u, handler))
    /\ UNCHANGED <<units, requests, clientVars>>

\* get/post/put/delete/patch(path, schema?, handler) -> addRoute: the wrapped
\* handler is registered with the unit's own internal server under the full
\* path; `schema` is undefined when the second argument is the handler
addRoute(u, method, path, schema, handler) ==
    /\ Len(setup) < MaxSetup
    /\ Cardinality(routes) < MaxRoutes
    /\ wrapHandler(u, handler) \notin routes
    /\ routes' = routes \cup {wrapHandler(u, handler)}
    /\ registered' = registered \cup
            {[unit |-> u, method |-> ToLowerCase(method),
              args |-> registrationOf(fullPathOf(u, path), schema,
                                      wrapHandler(u, handler))]}
    /\ setup' = Append(setup, SetupCall("route", u, handler))
    /\ UNCHANGED <<units, requests, clientVars>>

\* a use() that leaves the host's store alone
UseListsOnly(host, plugin) ==
    /\ Len(setup) < MaxSetup
    /\ Len(units[host].deriveFunctions) + Len(units[plugin].deriveFunctions) <= MaxFns
    /\ Len(units[host].resolveFunctions) + Len(units[plugin].resolveFunctions) <= MaxFns
    /\ units' = [units EXCEPT
                    ![host].deriveFunctions = @ \o units[plugin].deriveFunctions,
                    ![host].resolveFunctions = @ \o units[plugin].resolveFunctions]
    /\ setup' = Append(setup, SetupCall("use", host, plugin))
    /\ UNCHANGED <<routes, requests, registered, clientVars>>

\* a use() that puts the plugin's functions before the host's
UsePluginFirst(host, plugin) ==
    /\ Len(setup) < MaxSetup
    /\ Len(units[host].deriveFunctions) + Len(units[plugin].deriveFunctions) <= MaxFns
    /\ Len(units[host].resolveFunctions) + Len(units[plugin].resolveFunctions) <= MaxFns
    /\ units' = [units EXCEPT
                    ![host].singletonStore =
                        ObjectAssign(@, units[plugin].singletonStore),
                    ![host].deriveFunctions = units[plugin].deriveFunctions \o @,
                    ![host].resolveFunctions = units[plugin].resolveFunctions \o @]
    /\ setup' = Append(setup, SetupCall("use", host, plugin))
    /\ UNCHANGED <<routes, requests, registered, clientVars>>

\* host.use(plugin)
Use(host, plugin) ==
    /\ Len(setup) < MaxSetup
    /\ Len(units[host].deriveFunctions) + Len(units[plugin].deriveFunctions) <= MaxFns
    /\ Len(units[host].resolveFunctions) + Len(units[plugin].resolveFunctions) <= MaxFns
    /\ units' = [units EXCEPT
                    ![host].singletonStore =
                        ObjectAssign(@, units[plugin].singletonStore),
                    ![host].deriveFunctions = @ \o units[plugin].deriveFunctions,
                    ![host].resolveFunctions = @ \o units[plugin].resolveFunctions]
    /\ setup' = Append(setup, SetupCall("use", host, plugin))
    /\ UNCHANGED <<routes, requests, registered, clientVars>>

----------------------------------------------------------------------------
(* The server: the context pipeline of a wrapped handler *)

\* the functions the setup calls register, by name: what a call of each
\* returns (or resolves with)
Returns(fn) ==
    CASE fn = "f1" -> Obj(<<Entry(<<"a">>, Str(<<"f1">>)), Entry(<<"b">>, Str(<<"f1">>))>>)
      [] fn = "f2" -> Obj(<<Entry(<<"b">>, Str(<<"f2">>)), Entry(<<"c">>, Str(<<"f2">>))>>)
      [] fn = "r1" -> Obj(<<Entry(<<"c">>, Str(<<"r1">>)), Entry(<<"d">>, Str(<<"r1">>))>>)
      [] fn = "over" -> Obj(<<Entry(<<"store">>, Str(<<"over">>)),
                              Entry(<<"a">>, Str(<<"over">>)),
                              Entry(<<"c">>, Str(<<"over">>))>>)
      [] fn = "list" -> Arr(<<Str(<<"x">>)>>)
      [] fn = "text" -> Str(<<"hello">>)
      [] fn = "zero" -> Num(<<"0">>)
      [] fn = "null" -> Null
      [] fn = "no" -> Bool(<<"false">>)
      [] fn = "empty" -> Str(<<>>)
      [] OTHER -> Undefined

\* the functions that throw or reject instead
Throws(fn) == fn = "boom"

\* what a call of fn with context ctx returns: "who" returns the request it was
\* called for, under the key who
ReturnsOn(fn, ctx) ==
    IF fn = "who"
    THEN Obj(<<Entry(<<"who">>, Get(ctx, <<"req">>))>>)
    ELSE Returns(fn)

\* the functions that read ctx.store.counter, suspend, and then write the value
\* read plus one back:
\*   async ({ store }) => { const n = store.counter; await tick(); store.counter = n + 1 }
Suspends(fn) == fn = "inc"

\* the number a small decimal text stands for
NumberOf(text) == CHOOSE n \in 0..3 : IndexText(n) = text

\* value + 1
PlusOne(value) ==
    CASE value.t = "number" /\ value.v \in {<<"0">>, <<"1">>, <<"2">>} ->
            Num(<<IndexText(NumberOf(value.v[1]) + 1)>>)
      [] value.t = "number" -> Num(<<"n">>)
      [] value.t = "string" -> Str(value.v \o <<"1">>)
      [] value.t = "null" -> Num(<<"1">>)
      [] OTHER -> Num(<<"NaN">>)

\* the functions that increment ctx.store.counter with no suspension between
\* the read and the write, and return the new value:
\*   ({ store }) => { store.counter++; return { requestNumber: store.counter } }
IncrementsNow(fn) == fn = "bump"

\* the decimal text of a count
CountText(n) ==
    CASE n = 0 -> "0" [] n = 1 -> "1" [] n = 2 -> "2" [] n = 3 -> "3" [] n = 4 -> "4"
      [] n = 5 -> "5" [] n = 6 -> "6" [] n = 7 -> "7" [] n = 8 -> "8" [] n = 9 -> "9"
      [] OTHER -> "n"

\* the count a decimal text stands for
CountOf(text) == CHOOSE n \in 0..9 : CountText(n) = text

\* value after ++
Incremented(value) ==
    CASE value.t = "number" /\ value.v # <<>> /\ value.v[1] \in {CountText(n) : n \in 0..8} ->
            Num(<<CountText(CountOf(value.v[1]) + 1)>>)
      [] value.t = "number" /\ value.v # <<>> /\ value.v[1] \in {"9", "n"} -> Num(<<"n">>)
      [] value.t = "null" -> Num(<<"1">>)
      [] OTHER -> Num(<<"NaN">>)

\* the response object of the transport's context
Res == [t |-> "res", v |-> <<>>]

\* the reference to the store of unit u
StoreOf(u) == [t |-> "store", v |-> <<u>>]

\* the fields of the transport's context the wrapped handler uses
TransportContext == <<"res">> :> Res

\* the context the transport hands to a wrapped handler for request r: its own
\* object, holding the request
TransportContextOf(r) ==
    ObjectAssign(TransportContext, <<"req">> :> Num(<<IndexText(r)>>))

\* a request no wrapped handler runs for yet
IdleRequest ==
    [pc |-> "idle",
     route |-> [unit |-> "", handler |-> "", decorated |-> FALSE],
     ctx |-> EmptyObject,
     at |-> 0,
     log |-> <<>>,
     writes |-> <<>>,
     startedAt |-> 0,
     held |-> Undefined,
     pending |-> FALSE]

\* one step of the pipeline, as the request's log keeps it: the stage, the
\* function called, the context handed to it (for store and decorate: the
\* context the stage left) and whether the awaited call has settled
Step(stage, fn, ctx, settled) ==
    [stage |-> stage, fn |-> fn, ctx |-> ctx, settled |-> settled]

\* the decorators a wrapped handler closed over
decoratorsOf(route) ==
    IF route.decorated THEN units[route.unit].decorators ELSE EmptyObject

\* ctx.store.counter: the store's value, or undefined when a string has
\* replaced the store on the context
storeCounter(ctx) ==
    IF ctx[<<"store">>].t = "store"
    THEN Get(units[ctx[<<"store">>].v[1]].singletonStore, <<"counter">>)
    ELSE Undefined

\* the wrapped handler calls fn at position i of the stage and awaits it; a
\* function that suspends has run up to its suspension and holds what it read
invoke(req, stage, fn, i) ==
    [req EXCEPT !.pc = stage, !.at = i,
                !.log = Append(@, Step(stage, fn, req.ctx, FALSE)),
                !.held = IF Suspends(fn) THEN storeCounter(req.ctx)
                         ELSE IF IncrementsNow(fn) THEN Incremented(storeCounter(req.ctx))
                         ELSE @,
                !.pending = Suspends(fn)]

\* the function request req has just called and awaits
awaited(req) == req.log[Len(req.log)].fn

\* the awaited call of req threw or rejects: the function does, or its
\* increment found no store object on the context
rejects(req) ==
    \/ Throws(awaited(req))
    \/ IncrementsNow(awaited(req)) /\ req.ctx[<<"store">>].t # "store"

\* an increment that is dropped while another request awaits an increment
storeWrittenUnlessBusy(req) ==
    IF /\ req.pc \in {"derive", "resolve", "handler"}
       /\ IncrementsNow(awaited(req))
       /\ req.ctx[<<"store">>].t = "store"
       /\ ~\E q \in DOMAIN requests :
                /\ requests[q].pc \in {"derive", "resolve", "handler"}
                /\ requests[q].log # req.log
                /\ IncrementsNow(awaited(requests[q]))
                /\ ~requests[q].log[Len(requests[q].log)].settled
    THEN [units EXCEPT ![req.ctx[<<"store">>].v[1]].singletonStore =
                ObjectAssign(@, <<"counter">> :> req.held)]
    ELSE units

\* the units after the call request req has just made: a function that
\* increments has written the store before the wrapped handler awaits it
storeWritten(req) ==
    IF /\ req.pc \in {"derive", "resolve", "handler"}
       /\ IncrementsNow(awaited(req))
       /\ req.ctx[<<"store">>].t = "store"
    THEN [units EXCEPT ![req.ctx[<<"store">>].v[1]].singletonStore =
                ObjectAssign(@, <<"counter">> :> req.held)]
    ELSE units

\* a derive loop that stops after the first derive function
proceedAfterFirstDerive(req, stage, i) ==
    LET deriveFns == units[req.route.unit].deriveFunctions
        resolveFns == units[req.route.unit].resolveFunctions
        j == IF stage = "derive" THEN 1 ELSE i
    IN  IF stage = "derive" /\ i <= Len(deriveFns) /\ i <= 1
        THEN invoke(req, "derive", deriveFns[i], i)
        ELSE IF j <= Len(resolveFns)
        THEN invoke(req, "resolve", resolveFns[j], j)
        ELSE invoke(req, "handler", req.route.handler, 0)

\* the two loops in the other order: resolve functions, then derive functions
proceedResolveFirst(req, stage, i) ==
    LET deriveFns == units[req.route.unit].deriveFunctions
        resolveFns == units[req.route.unit].resolveFunctions
        entered == stage = "derive" /\ i = 1
        j == IF stage = "resolve" \/ entered THEN 1 ELSE i
    IN  IF entered /\ Len(resolveFns) >= 1
        THEN invoke(req, "resolve", resolveFns[1], 1)
        ELSE IF stage = "resolve" /\ i <= Len(resolveFns)
        THEN invoke(req, "resolve", resolveFns[i], i)
        ELSE IF j <= Len(deriveFns)
        THEN invoke(req, "derive", deriveFns[j], j)
        ELSE invoke(req, "handler", req.route.handler, 0)

\* the two loops over copies of the lists taken when the route was registered
proceedOverCopies(req, stage, i) ==
    LET u == req.route.unit
        at == CHOOSE p \in 0..Len(setup) :
                IF \E q \in 1..Len(setup) : setup[q] = SetupCall("route", u, req.route.handler)
                THEN /\ p > 0
                     /\ setup[p] = SetupCall("route", u, req.route.handler)
                     /\ \A q \in 1..(p - 1) :
                            setup[q] # SetupCall("route", u, req.route.handler)
                ELSE p = 0
        early(op) == SelectSeq(SubSeq(setup, 1, at),
                               LAMBDA c : c.op = op /\ c.unit = u)
        deriveFns == [k \in 1..Len(early("derive")) |-> early("derive")[k].arg]
        resolveFns == [k \in 1..Len(early("resolve")) |-> early("resolve")[k].arg]
        j == IF stage = "derive" THEN 1 ELSE i
    IN  IF stage = "derive" /\ i <= Len(deriveFns)
        THEN invoke(req, "derive", deriveFns[i], i)
        ELSE IF j <= Len(resolveFns)
        THEN invoke(req, "resolve", resolveFns[j], j)
        ELSE invoke(req, "handler", req.route.handler, 0)

\* the two loops and the handler call, from position i of the stage on: the
\* next function the wrapped handler calls
proceed(req, stage, i) ==
    LET deriveFns == units[req.route.unit].deriveFunctions
        resolveFns == units[req.route.unit].resolveFunctions
        j == IF stage = "derive" THEN 1 ELSE i
    IN  IF stage = "derive" /\ i <= Len(deriveFns)
        THEN invoke(req, "derive", deriveFns[i], i)
        ELSE IF j <= Len(resolveFns)
        THEN invoke(req, "resolve", resolveFns[j], j)
        ELSE invoke(req, "handler", req.route.handler, 0)

\* the transport calls a wrapped handler: store and decorators are injected and
\* the first function is called (request ids are given in order of arrival)
Handle(r, route) ==
    /\ requests[r].pc = "idle"
    /\ \A q \in DOMAIN requests : q < r => requests[q].pc # "idle"
    /\ LET withStore == ObjectAssign(TransportContextOf(r),
                                     <<"store">> :> StoreOf(route.unit))
           decoratedCtx == ObjectAssign(withStore, decoratorsOf(route))
           called == proceed([requests[r] EXCEPT
                                  !.route = route,
                                  !.ctx = decoratedCtx,
                                  !.startedAt = Len(setup),
                                  !.log = <<Step("store", "", withStore, TRUE),
                                            Step("decorate", "", decoratedCtx, TRUE)>>],
                             "derive", 1)
       IN  /\ requests' = [requests EXCEPT ![r] = called]
           /\ units' = storeWritten(called)
    /\ UNCHANGED <<routes, setup, registered, clientVars>>

\* the log with its last step settled
settledLog(log) == [log EXCEPT ![Len(log)].settled = TRUE]

\* a merge that leaves alone the keys the context holds already
assignedUnlessPresent(ctx, value) ==
    IF Truthy(value) /\ TypeofObject(value)
    THEN ObjectAssign(AsObject(value), ctx)
    ELSE ctx

\* if (derived && typeof derived === "object") Object.assign(ctx, derived)
assigned(ctx, value) ==
    IF Truthy(value) /\ TypeofObject(value)
    THEN ObjectAssign(ctx, AsObject(value))
    ELSE ctx

\* what the call request req awaits returns: a function that increments
\* returns the counter it wrote
returnedTo(req) ==
    IF IncrementsNow(awaited(req))
    THEN Obj(<<Entry(<<"requestNumber">>, req.held)>>)
    ELSE ReturnsOn(awaited(req), req.ctx)

\* the awaited derive or resolve function returned: merge, then go on
returned(req, stage) ==
    LET fn == req.log[Len(req.log)].fn
    IN  proceed([req EXCEPT !.ctx = assigned(req.ctx, returnedTo(req)),
                            !.log = settledLog(@)],
                stage, req.at + 1)

\* a wrapped handler that answers a failure itself
thrownAnswered(req) ==
    [req EXCEPT !.pc = "rejected", !.log = settledLog(@),
                !.writes = Append(@, [op |-> "send", value |-> Str(<<"error">>)])]

\* an awaited function threw or rejected: the wrapped handler rejects
thrown(req) == [req EXCEPT !.pc = "rejected", !.log = settledLog(@)]

\* a resumption that increments the store's value of the moment
ResumedAtomic(r) ==
    /\ requests[r].pending
    /\ IF requests[r].ctx[<<"store">>].t = "store"
       THEN /\ units' = [units EXCEPT
                    ![requests[r].ctx[<<"store">>].v[1]].singletonStore =
                        ObjectAssign(@, <<"counter">> :> PlusOne(storeCounter(requests[r].ctx)))]
            /\ requests' = [requests EXCEPT ![r].pending = FALSE]
       ELSE /\ requests' = [requests EXCEPT ![r] = thrown([@ EXCEPT !.pending = FALSE])]
            /\ UNCHANGED units
    /\ UNCHANGED <<routes, setup, registered, clientVars>>

\* a resumption whose write does not reach the unit's store
ResumedOnCopy(r) ==
    /\ requests[r].pending
    /\ IF requests[r].ctx[<<"store">>].t = "store"
       THEN requests' = [requests EXCEPT ![r].pending = FALSE]
       ELSE requests' = [requests EXCEPT ![r] = thrown([@ EXCEPT !.pending = FALSE])]
    /\ UNCHANGED <<units, routes, setup, registered, clientVars>>

\* the suspended function of request r resumes and writes what it held plus one
\* to ctx.store.counter (the assignment throws when ctx.store is a string), and
\* its promise settles
Resumed(r) ==
    /\ requests[r].pending
    /\ IF requests[r].ctx[<<"store">>].t = "store"
       THEN /\ units' = [units EXCEPT
                    ![requests[r].ctx[<<"store">>].v[1]].singletonStore =
                        ObjectAssign(@, <<"counter">> :> PlusOne(requests[r].held))]
            /\ requests' = [requests EXCEPT ![r].pending = FALSE]
       ELSE /\ requests' = [requests EXCEPT ![r] = thrown([@ EXCEPT !.pending = FALSE])]
            /\ UNCHANGED units
    /\ UNCHANGED <<routes, setup, registered, clientVars>>

\* a derive stage that merges the returned value onto one context the
\* requests of a unit share
DeriveReturnedShared(r) ==
    /\ requests[r].pc = "derive"
    /\ ~requests[r].pending
    /\ ~Throws(requests[r].log[Len(requests[r].log)].fn)
    /\ LET fn == requests[r].log[Len(requests[r].log)].fn
           value == ReturnsOn(fn, requests[r].ctx)
       IN  requests' = [q \in DOMAIN requests |->
                IF q = r THEN returned(requests[r], "derive")
                ELSE IF requests[q].pc \in {"derive", "resolve", "handler"}
                        /\ requests[q].route.unit = requests[r].route.unit
                THEN [requests[q] EXCEPT !.ctx = assigned(@, value)]
                ELSE requests[q]]
    /\ UNCHANGED <<units, routes, setup, registered, clientVars>>

DeriveReturned(r) ==
    /\ requests[r].pc = "derive"
    /\ ~requests[r].pending
    /\ ~rejects(requests[r])
    /\ requests' = [requests EXCEPT ![r] = returned(@, "derive")]
    /\ units' = storeWritten(returned(requests[r], "derive"))
    /\ UNCHANGED <<routes, setup, registered, clientVars>>

DeriveRejected(r) ==
    /\ requests[r].pc = "derive"
    /\ rejects(requests[r])
    /\ requests' = [requests EXCEPT ![r] = thrown(@)]
    /\ UNCHANGED <<units, routes, setup, registered, clientVars>>

ResolveReturned(r) ==
    /\ requests[r].pc = "resolve"
    /\ ~requests[r].pending
    /\ ~rejects(requests[r])
    /\ requests' = [requests EXCEPT ![r] = returned(@, "resolve")]
    /\ units' = storeWritten(returned(requests[r], "resolve"))
    /\ UNCHANGED <<routes, setup, registered, clientVars>>

ResolveRejected(r) ==
    /\ requests[r].pc = "resolve"
    /\ rejects(requests[r])
    /\ requests' = [requests EXCEPT ![r] = thrown(@)]
    /\ UNCHANGED <<units, routes, setup, registered, clientVars>>

\* a serialization that writes truthy results only
serializedTruthy(result) ==
    IF ~Truthy(result) THEN <<>>
    ELSE IF TypeofObject(result) /\ result # Null
    THEN <<[op |-> "json", value |-> result]>>
    ELSE <<[op |-> "send", value |-> Str(StringOf(result))]>>

\* the response writes of the result: none, json(result) or send(String(result))
serialized(result) ==
    IF result = Undefined THEN <<>>
    ELSE IF TypeofObject(result) /\ result # Null
    THEN <<[op |-> "json", value |-> result]>>
    ELSE <<[op |-> "send", value |-> Str(StringOf(result))]>>

\* the awaited handler returned: its result is written through ctx.res, which
\* throws when a merged value has replaced the response object
finished(req) ==
    LET result == Returns(req.route.handler)
        out == serialized(result)
    IN  IF out # <<>> /\ req.ctx[<<"res">>] # Res
        THEN thrown(req)
        ELSE [req EXCEPT !.pc = "done",
                         !.writes = @ \o out,
                         !.log = Append(settledLog(@),
                                    Step("serialize",
                                         IF out = <<>> THEN "" ELSE out[1].op,
                                         req.ctx, TRUE))]

HandlerReturned(r) ==
    /\ requests[r].pc = "handler"
    /\ ~requests[r].pending
    /\ ~rejects(requests[r])
    /\ requests' = [requests EXCEPT ![r] = finished(@)]
    /\ UNCHANGED <<units, routes, setup, registered, clientVars>>

\* a rejection that puts the store's counter back to what setup gave it
HandlerRejectedUndone(r) ==
    /\ requests[r].pc = "handler"
    /\ rejects(requests[r])
    /\ requests' = [requests EXCEPT ![r] = thrown(@)]
    /\ units' = [units EXCEPT ![requests[r].route.unit].singletonStore =
                    IF <<"counter">> \in DOMAIN @
                    THEN ObjectAssign(@, <<"counter">> :> Num(<<"0">>))
                    ELSE @]
    /\ UNCHANGED <<routes, setup, registered, clientVars>>

HandlerRejected(r) ==
    /\ requests[r].pc = "handler"
    /\ rejects(requests[r])
    /\ requests' = [requests EXCEPT ![r] = thrown(@)]
    /\ UNCHANGED <<units, routes, setup, registered, clientVars>>

\* the calls that register each of the functions fns on unit u
On(u, fns) == {[unit |-> u, fn |-> fn] : fn \in fns}

\* the call that sets key to value on unit u
Keyed(u, key, value) == [unit |-> u, key |-> key, value |-> value]

\* the state before any setup call
ServerInit ==
    /\ units = [u \in {"app", "plugin"} |-> NewKito]
    /\ routes = {}
    /\ requests = [r \in {1, 2} |-> IdleRequest]
    /\ setup = <<>>
    /\ registered = {}

\* the state before any setup call, the units constructed with one of `configs`
ServerInitOver(configs) ==
    /\ \E cfg \in configs :
            units = [u \in {"app", "plugin"} |-> [NewKito EXCEPT !.config = cfg]]
    /\ routes = {}
    /\ requests = [r \in {1, 2} |-> IdleRequest]
    /\ setup = <<>>
    /\ registered = {}

\* the server's steps over the inputs of universe U
ServerNextOver(U) ==
    \/ \E c \in U.states : State(c.unit, c.key, c.value)
    \/ \E c \in U.decorations : Decorate(c.unit, c.key, c.value)
    \/ \E c \in U.derives : Derive(c.unit, c.fn)
    \/ \E c \in U.resolves : Resolve(c.unit, c.fn)
    \/ \E c \in U.handlers, at \in U.routings :
            addRoute(c.unit, at.method, at.path, at.schema, c.fn)
    \/ \E c \in U.mounts : Use(c.host, c.plugin)
    \/ \E r \in U.requests, route \in routes : Handle(r, route)
    \/ \E r \in U.requests : DeriveReturned(r)
    \/ \E r \in U.requests : DeriveRejected(r)
    \/ \E r \in U.requests : ResolveReturned(r)
    \/ \E r \in U.requests : ResolveRejected(r)
    \/ \E r \in U.requests : HandlerReturned(r)
    \/ \E r \in U.requests : HandlerRejected(r)

\* the steps of a server that mounts nothing, with functions that suspend
StoreNextOver(U) ==
    \/ \E c \in U.states : State(c.unit, c.key, c.value)
    \/ \E c \in U.decorations : Decorate(c.unit, c.key, c.value)
    \/ \E c \in U.derives : Derive(c.unit, c.fn)
    \/ \E c \in U.resolves : Resolve(c.unit, c.fn)
    \/ \E c \in U.handlers, at \in U.routings :
            addRoute(c.unit, at.method, at.path, at.schema, c.fn)
    \/ \E r \in U.requests, route \in routes : Handle(r, route)
    \/ \E r \in U.requests : Resumed(r)
    \/ \E r \in U.requests : DeriveReturned(r)
    \/ \E r \in U.requests : DeriveRejected(r)
    \/ \E r \in U.requests : ResolveReturned(r)
    \/ \E r \in U.requests : ResolveRejected(r)
    \/ \E r \in U.requests : HandlerReturned(r)
    \/ \E r \in U.requests : HandlerRejected(r)

\* get("/", handler)
GetRoot == [method |-> "GET", path |-> <<"/">>, schema |-> Undefined]

\* the pipeline of one request on one unit: many functions, one request
PipelineUniverse ==
    [states |-> {Keyed("app", <<"counter">>, Str(<<"v">>))},
     decorations |-> {Keyed("app", <<"a">>, Str(<<"v">>))},
     derives |-> On("app", {"f1", "f2", "text", "boom"}),
     resolves |-> On("app", {"r1", "boom"}),
     handlers |-> On("app", {"f1", "void", "boom"}),
     routings |-> {GetRoot},
     mounts |-> {[host |-> "app", plugin |-> "plugin"]},
     requests |-> {1}]

\* two requests at once on one unit: few functions
InterleaveUniverse ==
    [states |-> {Keyed("app", <<"counter">>, Str(<<"v">>))},
     decorations |-> {Keyed("app", <<"a">>, Str(<<"v">>))},
     derives |-> On("app", {"f1", "boom"}),
     resolves |-> On("app", {"r1", "boom"}),
     handlers |-> On("app", {"void", "boom"}),
     routings |-> {GetRoot},
     mounts |-> {[host |-> "app", plugin |-> "plugin"]},
     requests |-> {1, 2}]

\* serialization: many handler results, few functions
SerializeUniverse ==
    [states |-> {Keyed("app", <<"counter">>, Str(<<"v">>))},
     decorations |-> {Keyed("app", <<"a">>, Str(<<"v">>))},
     derives |-> On("app", {"f1", "boom"}),
     resolves |-> On("app", {"null", "boom"}),
     handlers |-> On("app", {"f1", "list", "text", "zero", "null", "empty", "void", "boom"}),
     routings |-> {GetRoot},
     mounts |-> {[host |-> "app", plugin |-> "plugin"]},
     requests |-> {1}]

\* mounting, the stores: two units whose stores share a key
MountStoreUniverse ==
    [states |-> {Keyed("app", <<"counter">>, Str(<<"host">>)),
                 Keyed("app", <<"sessions">>, Str(<<"host">>)),
                 Keyed("plugin", <<"counter">>, Str(<<"plugin">>)),
                 Keyed("plugin", <<"sessions">>, Str(<<"plugin">>))},
     decorations |-> {Keyed("app", <<"a">>, Str(<<"v">>))},
     derives |-> On("app", {"f1", "boom"}),
     resolves |-> On("app", {"r1", "boom"}),
     handlers |-> On("app", {"void", "boom"}),
     routings |-> {GetRoot},
     mounts |-> {[host |-> "app", plugin |-> "plugin"],
                 [host |-> "plugin", plugin |-> "app"]},
     requests |-> {1}]

\* mounting, the lists and the decorators: functions and decorators on both units
MountListsUniverse ==
    [states |-> {Keyed("app", <<"counter">>, Str(<<"host">>))},
     decorations |-> {Keyed("app", <<"own">>, Str(<<"host">>)),
                      Keyed("plugin", <<"dec">>, Str(<<"plugin">>))},
     derives |-> On("app", {"f1", "boom"}) \cup On("plugin", {"f2", "text"}),
     resolves |-> On("app", {"r1", "boom"}) \cup On("plugin", {"f1"}),
     handlers |-> On("app", {"void", "boom"}),
     routings |-> {GetRoot},
     mounts |-> {[host |-> "app", plugin |-> "plugin"]},
     requests |-> {1}]

\* the store and two requests at once: functions that tell the request and
\* functions that increment a store counter across a suspension
StoreUniverse ==
    [states |-> {Keyed("app", <<"counter">>, Num(<<"0">>))},
     decorations |-> {Keyed("app", <<"store">>, Str(<<"mine">>))},
     derives |-> On("app", {"who", "boom"}),
     resolves |-> On("app", {"inc", "boom"}),
     handlers |-> On("app", {"inc", "boom"}),
     routings |-> {GetRoot},
     mounts |-> {},
     requests |-> {1, 2}]

\* a counter incremented by a derive function, two requests at once
CountUniverse ==
    [states |-> {Keyed("app", <<"counter">>, Num(<<"0">>))},
     decorations |-> {Keyed("app", <<"a">>, Str(<<"v">>))},
     derives |-> On("app", {"bump", "boom"}),
     resolves |-> On("app", {"r1", "boom"}),
     handlers |-> On("app", {"void", "boom"}),
     routings |-> {GetRoot},
     mounts |-> {[host |-> "app", plugin |-> "plugin"]},
     requests |-> {1, 2}]

\* keys that collide across the stages: decorators named like a seeded field
\* and like function outputs, a derive function that returns store, a and c
PrecedenceUniverse ==
    [states |-> {Keyed("app", <<"counter">>, Str(<<"v">>))},
     decorations |-> {Keyed("app", <<"store">>, Str(<<"dec">>)),
                      Keyed("app", <<"a">>, Str(<<"dec">>)),
                      Keyed("app", <<"c">>, Str(<<"dec">>))},
     derives |-> On("app", {"over", "boom"}),
     resolves |-> On("app", {"r1", "boom"}),
     handlers |-> On("app", {"void", "boom"}),
     routings |-> {GetRoot},
     mounts |-> {[host |-> "app", plugin |-> "plugin"]},
     requests |-> {1}]

\* setup calls on a mounted unit after the mount, and store writes of the host
MountCopyUniverse ==
    [states |-> {Keyed("plugin", <<"counter">>, Num(<<"0">>)),
                 Keyed("plugin", <<"sessions">>, Str(<<"plugin">>))},
     decorations |-> {Keyed("app", <<"a">>, Str(<<"v">>))},
     derives |-> On("app", {"bump", "boom"}) \cup On("plugin", {"f2"}),
     resolves |-> On("app", {"r1", "boom"}) \cup On("plugin", {"f1"}),
     handlers |-> On("app", {"void", "boom"}),
     routings |-> {GetRoot},
     mounts |-> {[host |-> "app", plugin |-> "plugin"]},
     requests |-> {1}]

\* a schema of a route, as an object
UserSchema == [t |-> "schema", v |-> <<"params">>]

\* the configs units are constructed with: none, an empty prefix, "/api/v1"
AllKitoConfigs == {EmptyObject, [prefix |-> <<>>], [prefix |-> <<"/api", "/v1">>]}

\* route registration: methods, paths and schemas; few functions
RoutesUniverse ==
    [states |-> {Keyed("app", <<"counter">>, Str(<<"v">>))},
     decorations |-> {Keyed("app", <<"a">>, Str(<<"v">>))},
     derives |-> On("app", {"f1", "boom"}),
     resolves |-> On("app", {"r1", "boom"}),
     handlers |-> On("app", {"void", "boom"}),
     routings |-> {GetRoot,
                   [method |-> "GET", path |-> <<"/users", "/", ":id">>,
                    schema |-> Undefined],
                   [method |-> "POST", path |-> <<"/users", "/", ":id">>,
                    schema |-> UserSchema]},
     mounts |-> {[host |-> "app", plugin |-> "plugin"]},
     requests |-> {1}]

----------------------------------------------------------------------------
(* The initial state and the specifications *)

Init == InitWith({1}) /\ ServerInit

SpecDomain == Init /\ [][NextOver(DomainUniverse)]_vars

SpecUrl == Init /\ [][NextOver(UrlUniverse)]_vars

SpecRequest == Init /\ [][NextOver(RequestUniverse)]_vars

SpecResponse == Init /\ [][NextOver(ResponseUniverse)]_vars

SpecChain == Init /\ [][NextOver(ChainUniverse)]_vars

InitConfig == InitWith({1, 2}) /\ ServerInit

SpecConfig == InitConfig /\ [][NextOver(ConfigUniverse)]_vars

SpecPipeline == Init /\ [][ServerNextOver(PipelineUniverse)]_vars

SpecInterleave == Init /\ [][ServerNextOver(InterleaveUniverse)]_vars

SpecSerialize == Init /\ [][ServerNextOver(SerializeUniverse)]_vars

SpecMountStore == Init /\ [][ServerNextOver(MountStoreUniverse)]_vars

SpecMountLists == Init /\ [][ServerNextOver(MountListsUniverse)]_vars

SpecStore == Init /\ [][StoreNextOver(StoreUniverse)]_vars

SpecCount == Init /\ [][ServerNextOver(CountUniverse)]_vars

SpecPrecedence == Init /\ [][ServerNextOver(PrecedenceUniverse)]_vars

SpecMountCopy == Init /\ [][ServerNextOver(MountCopyUniverse)]_vars

InitRoutes == InitWith({1}) /\ ServerInitOver(AllKitoConfigs)

SpecRoutes == InitRoutes /\ [][ServerNextOver(RoutesUniverse)]_vars

----------------------------------------------------------------------------
(* Properties of the URL *)

\* the calls whose request has been handed to the network call primitive
Sent == {c \in DOMAIN calls : calls[c].sent # Undefined}

\* the options object of call c
OptionsOf(c) ==
    actualOptionsOf(calls[c].method, calls[c].bodyOrOptions, calls[c].options)

\* the [name, value] pairs one query entry stands for
QueryPairs(e) ==
    CASE e.val.t \in {"null", "undefined"} -> <<>>
      [] e.val.t = "array" -> [i \in 1..Len(e.val.v) |-> <<e.k, StringOf(e.val.v[i])>>]
      [] e.val.t = "object" -> << <<e.k, JSONStringify(e.val)>> >>
      [] OTHER -> << <<e.k, StringOf(e.val)>> >>

RECURSIVE AllQueryPairs(_)
\* the pairs of all entries, in enumeration order
AllQueryPairs(entries) ==
    IF entries = <<>> THEN <<>>
    ELSE QueryPairs(Head(entries)) \o AllQueryPairs(Tail(entries))

\* the query suffix of an options object
QuerySuffix(options) ==
    LET query == Get(options, "query")
        pairs == IF query = Undefined THEN <<>> ELSE AllQueryPairs(query.v)
    IN  IF pairs = <<>> THEN <<>>
        ELSE <<"?">> \o Join([i \in 1..Len(pairs) |->
                                FormEncode(pairs[i][1]) \o <<"=">>
                                    \o FormEncode(pairs[i][2])], <<"&">>)

\* C5: the URL handed to the network call is domain + "/" + join(S, "/") followed
\* by the query suffix of options.query: one pair per array element, one
\* JSON-encoded pair per plain object, one stringified pair per scalar, none for
\* null/undefined, in key order, and no "?" when no pair remains.
C5_UrlOfCall ==
    \A c \in Sent :
        calls[c].sent.url =
            domain \o <<"/">> \o Join(calls[c].paths, <<"/">>) \o QuerySuffix(OptionsOf(c))

\* a request went out for a two-segment path with a query holding an array value
\* and a null value
C5_Witness ==
    \E c \in Sent :
        /\ Len(calls[c].paths) = 2
        /\ Get(OptionsOf(c), "query") # Undefined
        /\ \E i \in 1..Len(Get(OptionsOf(c), "query").v) :
                Get(OptionsOf(c), "query").v[i].val.t = "array"
        /\ \E i \in 1..Len(Get(OptionsOf(c), "query").v) :
                Get(OptionsOf(c), "query").v[i].val.t = "null"

\* parameter values a path parameter may be given
ParamValues ==
    {Str(<<"123">>), Num(<<"7">>), Str(<<>>), Undefined, Null, Bool(<<"true">>),
     Str(<<"index">>), Str(<<"get">>), Str(<<"delete">>)}

\* the accumulator got by reading member `name` of one over `paths` carries the
\* segments `expected`: every verb then requests the same URL and hands the same
\* path to the hooks (the rest of a request does not depend on the segments)
MemberReaches(paths, name, expected) ==
    LET got == createProxyGet(paths, name)
    IN  /\ got.kind = "proxy"
        /\ pathOf(got.paths) = pathOf(expected)
        /\ \A o \in {Undefined} \cup QueryOptions :
                urlOf(domain, got.paths, o) = urlOf(domain, expected, o)

\* C6 as claimed: for any accumulator A and any parameter value p, A({key: p})
\* then a verb issues the same request as A[String(p)] then that verb.
C6_SubstitutionIsMember ==
    \A paths \in proxies, p \in ParamValues :
        MemberReaches(paths, StringOf(p),
                      createProxyApply(paths, Obj(<<Entry(<<"key">>, p)>>)))

\* the member names the get trap does not append as a segment
ReservedNames == HTTP_METHODS \cup {<<"index">>}

\* C6 amended: the same, for every p whose String(p) is neither a verb name nor
\* "index"; and the substituted accumulator carries A's segments followed by
\* String(p).
C6_SubstitutionIsMemberUnlessReserved ==
    \A paths \in proxies, p \in ParamValues :
        StringOf(p) \notin ReservedNames =>
            /\ createProxyApply(paths, Obj(<<Entry(<<"key">>, p)>>))
                    = Append(paths, StringOf(p))
            /\ MemberReaches(paths, StringOf(p),
                             createProxyApply(paths, Obj(<<Entry(<<"key">>, p)>>)))

\* a request went out through a caller of an accumulator built by substitution
\* after a literal segment
C6_Witness ==
    \E c \in Sent :
        /\ calls[c].paths = << <<"users">>, <<"123">> >>
        /\ << <<"users">> >> \in proxies

----------------------------------------------------------------------------
(* Properties of client() *)

RECURSIVE HostPart(_)
\* the host of a scheme-less domain: what precedes the first ":" or "/"
HostPart(d) ==
    IF d = <<>> \/ Head(d) \in {":", "/"} THEN <<>>
    ELSE <<Head(d)>> \o HostPart(Tail(d))

\* the domain the claim expects client(d) to keep
ClaimedDomain(d) ==
    LET withScheme ==
            IF Includes(d, <<":", "/", "/">>) THEN d
            ELSE IF HostPart(d) \in LOCAL_HOSTS
            THEN <<"http", ":", "/", "/">> \o d
            ELSE <<"https", ":", "/", "/">> \o d
    IN  IF withScheme # <<>> /\ withScheme[Len(withScheme)] = "/"
        THEN SubSeq(withScheme, 1, Len(withScheme) - 1)
        ELSE withScheme

\* C10: client(domain) prepends "http://" to a scheme-less domain exactly when
\* its host part is localhost, 127.0.0.1 or 0.0.0.0 and "https://" otherwise,
\* keeps an existing scheme, then strips a single trailing "/".
C10_DomainNormalized == constructed => domain = ClaimedDomain(rawDomain)

----------------------------------------------------------------------------
(* Properties of the result envelope *)

\* the calls that returned an envelope
Done == {c \in DOMAIN calls : calls[c].pc = "done"}

\* the calls whose network call returned a response
Answered == {c \in DOMAIN calls : calls[c].response # Undefined}

IsSuccess(status) == status >= 200 /\ status <= 299

\* the media type of a response: its content-type without parameters
MediaType(response) ==
    IF response.contentType = Null THEN <<>>
    ELSE SplitFirst(response.contentType.v, ";")

\* the content-type-appropriate parse of a response body
ParseOf(response) ==
    LET type == MediaType(response)
    IN  IF type = <<"application/json">> THEN ResponseJson(response.body).value
        ELSE IF type = <<"application/octet-stream">>
        THEN [t |-> "arraybuffer", v |-> response.body]
        ELSE IF type = <<"multipart/form-data">>
        THEN Obj(AssignFields(<<>>, ResponseFormData(response.body).value))
        ELSE IF type = <<"text/event-stream">>
        THEN [t |-> "response", v |-> <<response>>]
        ELSE Str(response.body)

\* the envelope follows the status, with `value` as the parsed body
Classified(c, value) ==
    LET e == calls[c].envelope
        status == calls[c].response.status
    IN  IF IsSuccess(status)
        THEN e.error = Null /\ e.data = value
        ELSE /\ e.data = Null
             /\ e.error = [status |-> status, value |-> value]
             /\ e.error.status = e.status

\* C1 as claimed: for every call that got a response, a status in [200,299]
\* gives error = null and data = the content-type-appropriate parse of the body;
\* any other status gives data = null and error = {status, value: parsed body}.
C1_EnvelopeIsParseOfBody ==
    \A c \in Done : Classified(c, ParseOf(calls[c].response))

\* the post-response hook of call c returned a value other than null/undefined
HookAnswered(c) ==
    /\ calls[c].onResponseCalls > 0
    /\ calls[c].result # Undefined
    /\ calls[c].result # Null

\* C1 amended: the same, with the value returned by the post-response hook in
\* place of the parsed body whenever a hook is configured and returns a value
\* other than null/undefined.
C1_EnvelopeIsHookValueOrParse ==
    \A c \in Done :
        /\ calls[c].envelope.status = calls[c].response.status
        /\ Classified(c, IF HookAnswered(c) THEN calls[c].result
                         ELSE ParseOf(calls[c].response))

\* a status 299 response with a JSON body and a parameter on its content type
\* came back as data, under a config whose post-response hook returned nothing
C1_Witness ==
    \E c \in Done :
        /\ calls[c].response.status = 299
        /\ calls[c].response.contentType
                = Str(<<"application/json", ";", " charset=utf-8">>)
        /\ calls[c].onResponseCalls = 1
        /\ ~HookAnswered(c)
        /\ calls[c].envelope.data = Obj(<<Entry(<<"id">>, Str(<<"1">>))>>)

\* C2 as claimed: every returned envelope has exactly one of data / error
\* non-null.
C2_ExactlyOneNonNull ==
    \A c \in Done :
        (calls[c].envelope.data # Null) # (calls[c].envelope.error # Null)

\* C2 amended: never both are non-null; error is non-null exactly for a status
\* outside 200-299; both are null exactly for a 2xx response whose body parsed
\* to null with no value from the post-response hook.
C2_AtMostOneNonNull ==
    \A c \in Done :
        LET e == calls[c].envelope
        IN  /\ ~(e.data # Null /\ e.error # Null)
            /\ (e.error # Null) <=> ~IsSuccess(e.status)
            /\ (e.data = Null /\ e.error = Null) <=>
                    /\ IsSuccess(e.status)
                    /\ ~HookAnswered(c)
                    /\ ParseOf(calls[c].response) = Null

\* an error envelope came back for a body that parsed to a non-null value
C2_Witness ==
    \E c \in Done :
        /\ calls[c].envelope.data = Null
        /\ calls[c].envelope.error # Null
        /\ calls[c].envelope.error.value # Null

\* C3: a response with a status outside 200-299 makes the call resolve with an
\* error envelope, never reject, whatever its content type and body.
C3_ErrorStatusNeverRejects ==
    \A c \in Answered :
        (~IsSuccess(calls[c].response.status) /\ calls[c].threw # "onResponse") =>
            /\ calls[c].pc # "rejected"
            /\ calls[c].pc = "done" =>
                    calls[c].envelope.data = Null /\ calls[c].envelope.error # Null

\* C4: when the network call primitive rejects, the call rejects with that
\* rejection: no envelope, no post-response hook, no parsing.
C4_FetchRejectionPropagates ==
    \A c \in DOMAIN calls :
        calls[c].threw = "fetch" =>
            /\ calls[c].pc = "rejected"
            /\ calls[c].rejectedBy = "fetch"
            /\ calls[c].envelope = NoEnvelope
            /\ calls[c].response = Undefined
            /\ calls[c].onResponseCalls = 0
            /\ calls[c].parseCalls = 0

\* the network call rejected under a config with a post-response hook
C4_Witness ==
    \E c \in DOMAIN calls :
        calls[c].threw = "fetch" /\ config.onResponse /\ calls[c].fetchCalls = 1

----------------------------------------------------------------------------
(* Properties of the request init *)

\* a header map that may be missing
HeadersOr(x) == IF x = Undefined THEN EmptyObject ELSE x

\* the header sources of call c
BaseHeaders == HeadersOr(Get(config.fetchOptions, "headers"))
ConfigHeaders(c) == calls[c].configHeaders
CallHeaders(c) == HeadersOr(Get(OptionsOf(c), "headers"))
OverrideHeaders(c) == HeadersOr(Get(Get(OptionsOf(c), "fetch"), "headers"))
HookHeaders(c) == HeadersOr(Get(calls[c].modified, "headers"))

\* the headers handed to the network call
SentHeaders(c) == initHeaders(calls[c].sent.init)

\* the RequestInit members given outright: base request options, then the
\* per-call fetch override
GivenInit(c) ==
    SpreadOver(SpreadOver(EmptyObject, config.fetchOptions), Get(OptionsOf(c), "fetch"))

\* C7 as claimed, for configs without a pre-request hook: a get or head call
\* hands on an init with no body and no content-type header of a body (one no
\* header source named), whatever its first argument.
C7_GetHeadCarryNoBody ==
    \A c \in Sent :
        (isGetOrHead(calls[c].method) /\ calls[c].onRequestCalls = 0) =>
            /\ "body" \notin DOMAIN calls[c].sent.init
            /\ "content-type" \in DOMAIN SentHeaders(c) =>
                    "content-type" \in
                        DOMAIN BaseHeaders \cup DOMAIN ConfigHeaders(c)
                            \cup DOMAIN CallHeaders(c) \cup DOMAIN OverrideHeaders(c)

\* C7 amended: a get or head call never encodes its first argument as a body:
\* the init carries a body only when the per-call fetch override, the base
\* request options or the pre-request hook gives one, and it is then that one;
\* it carries a content-type header only when a header source names it.
C7_GetHeadEncodeNoBody ==
    \A c \in Sent :
        isGetOrHead(calls[c].method) =>
            LET init == calls[c].sent.init
                hook == IF calls[c].modified = Undefined THEN EmptyObject
                        ELSE calls[c].modified
            IN  /\ "body" \in DOMAIN init <=>
                        "body" \in DOMAIN GivenInit(c) \cup DOMAIN hook
                /\ "body" \in DOMAIN init =>
                        init.body = IF "body" \in DOMAIN hook THEN hook.body
                                    ELSE GivenInit(c).body
                /\ "content-type" \in DOMAIN SentHeaders(c) =>
                        "content-type" \in
                            DOMAIN BaseHeaders \cup DOMAIN ConfigHeaders(c)
                                \cup DOMAIN CallHeaders(c) \cup DOMAIN OverrideHeaders(c)
                                \cup DOMAIN HookHeaders(c)

\* a get or head request went out whose first argument was an object that is
\* no options object
C7_Witness ==
    \E c \in Sent :
        /\ isGetOrHead(calls[c].method)
        /\ calls[c].bodyOrOptions = John
        /\ "body" \notin DOMAIN calls[c].sent.init

RECURSIVE ContainsFile(_)
\* a binary attachment is a value of x or an element of an array, at any depth
ContainsFile(x) ==
    /\ x.t \in {"object", "array"}
    /\ \E i \in 1..Len(ObjectEntries(x)) :
            \/ isFile(ObjectEntries(x)[i].val)
            \/ ContainsFile(ObjectEntries(x)[i].val)

\* C8: for a body-carrying verb, a body with a binary attachment anywhere is sent
\* multipart-encoded and without a JSON content-type header (stated for calls
\* with no pre-request hook and no per-call fetch override).
C8_FilesAnywhereGoMultipart ==
    \A c \in Sent :
        (/\ ~isGetOrHead(calls[c].method)
         /\ ContainsFile(calls[c].bodyOrOptions)
         /\ calls[c].onRequestCalls = 0
         /\ Get(OptionsOf(c), "fetch") = Undefined) =>
            /\ "body" \in DOMAIN calls[c].sent.init
            /\ calls[c].sent.init.body.t = "formdata"
            /\ "content-type" \in DOMAIN SentHeaders(c) =>
                    SentHeaders(c)["content-type"] # "application/json"

\* the value of header k in the highest of the four sources naming it
HighestSource(c, k) ==
    IF k \in DOMAIN HookHeaders(c) THEN HookHeaders(c)[k]
    ELSE IF k \in DOMAIN CallHeaders(c) THEN CallHeaders(c)[k]
    ELSE IF k \in DOMAIN ConfigHeaders(c) THEN ConfigHeaders(c)[k]
    ELSE BaseHeaders[k]

\* C9 as claimed: base request options < config headers < per-call headers <
\* pre-request hook override, key by key: every header a source names is sent,
\* with the value of the highest source naming it (stated for calls whose base
\* request options and per-call fetch override hold no headers member).
C9_HeaderPrecedenceByKey ==
    \A c \in Sent :
        "headers" \notin DOMAIN GivenInit(c) =>
            \A k \in DOMAIN ConfigHeaders(c) \cup DOMAIN CallHeaders(c)
                        \cup DOMAIN HookHeaders(c) :
                /\ k \in DOMAIN SentHeaders(c)
                /\ SentHeaders(c)[k] = HighestSource(c, k)

\* the content type the body encoder sets for call c, if any
EncoderContentType(c) ==
    LET body == calls[c].bodyOrOptions
    IN  IF isGetOrHead(calls[c].method) \/ body \in {Undefined, Null} \/ hasFiles(body)
        THEN EmptyObject
        ELSE IF TypeofObject(body) THEN "content-type" :> "application/json"
        ELSE "content-type" :> "text/plain"

\* C9 amended: per-call headers are merged over the config headers key by key
\* (per-call wins, a header only the config names is still sent); a headers
\* member of the base request options replaces that map whole, one of the
\* per-call fetch override replaces it in turn; the body encoder then sets
\* content-type over the map in place; a headers member returned by the
\* pre-request hook replaces the whole map.
C9_HeaderPrecedence ==
    \A c \in Sent :
        LET merged == [k \in DOMAIN ConfigHeaders(c) \cup DOMAIN CallHeaders(c) |->
                        IF k \in DOMAIN CallHeaders(c) THEN CallHeaders(c)[k]
                        ELSE ConfigHeaders(c)[k]]
            given == IF "headers" \in DOMAIN GivenInit(c) THEN GivenInit(c).headers
                     ELSE merged
            encoded == [k \in DOMAIN given \cup DOMAIN EncoderContentType(c) |->
                        IF k \in DOMAIN EncoderContentType(c)
                        THEN EncoderContentType(c)[k] ELSE given[k]]
        IN  SentHeaders(c) =
                IF Get(calls[c].modified, "headers") # Undefined
                THEN calls[c].modified.headers
                ELSE encoded

\* a request went out with a header only the config names and a header the
\* per-call headers and the config both name
C9_Witness ==
    \E c \in Sent :
        /\ "authorization" \in DOMAIN ConfigHeaders(c) \cap DOMAIN CallHeaders(c)
        /\ "x-config" \in DOMAIN ConfigHeaders(c) \ DOMAIN CallHeaders(c)
        /\ ConfigHeaders(c)["authorization"] # CallHeaders(c)["authorization"]
        /\ {"authorization", "x-config"} \subseteq DOMAIN SentHeaders(c)
        /\ SentHeaders(c)["authorization"] = CallHeaders(c)["authorization"]
        /\ SentHeaders(c)["x-config"] = ConfigHeaders(c)["x-config"]

----------------------------------------------------------------------------
(* Claims about the context pipeline *)

\* the requests whose route handler has been called
Handled == {r \in DOMAIN requests : \E i \in 1..Len(requests[r].log) :
                                        requests[r].log[i].stage = "handler"}

\* the steps of request r in the given stage, in the order they were taken
StepsOf(r, stage) == SelectSeq(requests[r].log, LAMBDA s : s.stage = stage)

\* the context handed to the route handler of a handled request
HandlerCtx(r) == StepsOf(r, "handler")[1].ctx

\* the names of the functions called by a sequence of steps
FnsOf(steps) == [i \in 1..Len(steps) |-> steps[i].fn]

\* the keys and values a function contributes: its return value when that is a
\* structured value, nothing otherwise
Output(fn) ==
    IF Returns(fn).t \in {"object", "array"} THEN AsObject(Returns(fn)) ELSE EmptyObject

\* the functions registered on unit u by the first n setup calls with derive()
\* (op = "derive") or resolve() (op = "resolve"), in registration order
Registered(u, op, n) ==
    FnsOf([i \in 1..Len(SelectSeq(SubSeq(setup, 1, n),
                                  LAMBDA c : c.op = op /\ c.unit = u)) |->
            [fn |-> SelectSeq(SubSeq(setup, 1, n),
                              LAMBDA c : c.op = op /\ c.unit = u)[i].arg]])

\* some unit was mounted on unit u by the first n setup calls
MountedOn(u, n) == \E i \in 1..n : setup[i].op = "use" /\ setup[i].unit = u

IsPrefix(a, b) == Len(a) <= Len(b) /\ SubSeq(b, 1, Len(a)) = a

\* the value of key k after the outputs of the functions fns were merged in
\* order: that of the last function contributing k
LastOutput(fns, k) ==
    LET i == CHOOSE i \in 1..Len(fns) :
                /\ k \in DOMAIN Output(fns[i])
                /\ \A j \in (i + 1)..Len(fns) : k \notin DOMAIN Output(fns[j])
    IN  Output(fns[i])[k]

\* the keys the functions fns contribute
KeysOf(fns) == UNION {DOMAIN Output(fns[i]) : i \in 1..Len(fns)}

\* C11: on a unit with derive registrations f1 then f2 (and no mount), every
\* handled request ran them in that order; each derive function received a
\* context carrying the merged output of the derive functions before it, the
\* later one winning a shared key; and the context handed to the handler holds,
\* for every key a derive function contributes and no resolve function does,
\* the value of the last derive function contributing it.
C11_DeriveChain ==
    \A r \in Handled :
        LET u == requests[r].route.unit
            derives == StepsOf(r, "derive")
            resolves == StepsOf(r, "resolve")
        IN  /\ ~MountedOn(u, requests[r].startedAt) =>
                    IsPrefix(Registered(u, "derive", requests[r].startedAt),
                             FnsOf(derives))
            /\ \A j \in 1..Len(derives) :
                    \A k \in KeysOf(FnsOf(SubSeq(derives, 1, j - 1))) :
                        /\ k \in DOMAIN derives[j].ctx
                        /\ derives[j].ctx[k] =
                                LastOutput(FnsOf(SubSeq(derives, 1, j - 1)), k)
            /\ \A k \in KeysOf(FnsOf(derives)) \ KeysOf(FnsOf(resolves)) :
                    /\ k \in DOMAIN HandlerCtx(r)
                    /\ HandlerCtx(r)[k] = LastOutput(FnsOf(derives), k)

\* a handled request on a unit with derive registrations f1 then f2, which
\* share key b: f2 received f1's values, the handler f1's a and f2's b and c
C11_Witness ==
    \E r \in Handled :
        /\ Registered(requests[r].route.unit, "derive", requests[r].startedAt)
                = <<"f1", "f2">>
        /\ FnsOf(StepsOf(r, "derive")) = <<"f1", "f2">>
        /\ StepsOf(r, "resolve") = <<>>
        /\ StepsOf(r, "derive")[2].ctx[<<"b">>] = Str(<<"f1">>)
        /\ HandlerCtx(r)[<<"a">>] = Str(<<"f1">>)
        /\ HandlerCtx(r)[<<"b">>] = Str(<<"f2">>)
        /\ HandlerCtx(r)[<<"c">>] = Str(<<"f2">>)

\* every function registered on unit u by the first n setup calls with derive()
\* or resolve(), in registration order
AllRegistered(u, n) ==
    FnsOf([i \in 1..Len(SelectSeq(SubSeq(setup, 1, n),
                                  LAMBDA c : c.op \in {"derive", "resolve"} /\ c.unit = u)) |->
            [fn |-> SelectSeq(SubSeq(setup, 1, n),
                              LAMBDA c : c.op \in {"derive", "resolve"} /\ c.unit = u)[i].arg]])

\* the unit of request r holds only functions registered on it directly, all of
\* them before the request began
SetupBefore(r) ==
    \A i \in 1..Len(setup) :
        setup[i].unit = requests[r].route.unit =>
            /\ setup[i].op # "use"
            /\ i > requests[r].startedAt => setup[i].op \notin {"derive", "resolve"}

\* C12 as claimed: whichever of derive() and resolve() registered them, of the
\* functions whose outputs share a key the one registered last gives the value
\* on the context handed to the handler.
C12_RegistrationOrderOnly ==
    \A r \in Handled :
        SetupBefore(r) =>
            LET all == AllRegistered(requests[r].route.unit, requests[r].startedAt)
            IN  \A k \in KeysOf(all) :
                    /\ k \in DOMAIN HandlerCtx(r)
                    /\ HandlerCtx(r)[k] = LastOutput(all, k)

\* C12: among the derive functions, and among the resolve functions, the one
\* registered later wins a shared key; a resolve function wins over every
\* derive function, whichever was registered first.
C12_DeriveThenResolveOrder ==
    \A r \in Handled :
        SetupBefore(r) =>
            LET u == requests[r].route.unit
                ran == Registered(u, "derive", requests[r].startedAt)
                        \o Registered(u, "resolve", requests[r].startedAt)
            IN  \A k \in KeysOf(ran) :
                    /\ k \in DOMAIN HandlerCtx(r)
                    /\ HandlerCtx(r)[k] = LastOutput(ran, k)

\* a handled request on a unit where resolve(r1) was registered before
\* derive(f2), which share key c
C12_Witness ==
    \E r \in Handled :
        /\ SetupBefore(r)
        /\ AllRegistered(requests[r].route.unit, requests[r].startedAt) = <<"r1", "f2">>
        /\ HandlerCtx(r)[<<"c">>] = Str(<<"r1">>)
        /\ HandlerCtx(r)[<<"b">>] = Str(<<"f2">>)

\* the positions in the log of request r of its steps in the given stage
PositionsOf(r, stage) ==
    {p \in 1..Len(requests[r].log) : requests[r].log[p].stage = stage}

\* C13: when a resolve function is called, every derive function registered on
\* the unit before the request began has been called and has settled, no derive
\* function is called afterwards, and the context the resolve function receives
\* carries the merged outputs of the derive functions, then of the resolve
\* functions called before it.
C13_ResolveAfterAllDerive ==
    \A r \in DOMAIN requests :
        LET u == requests[r].route.unit
            log == requests[r].log
            derives == StepsOf(r, "derive")
            resolves == StepsOf(r, "resolve")
        IN  /\ \A p \in PositionsOf(r, "resolve") :
                    \A q \in PositionsOf(r, "derive") : q < p /\ log[q].settled
            /\ (resolves # <<>> /\ ~MountedOn(u, requests[r].startedAt)) =>
                    IsPrefix(Registered(u, "derive", requests[r].startedAt),
                             FnsOf(derives))
            /\ \A j \in 1..Len(resolves) :
                    LET before == FnsOf(derives) \o FnsOf(SubSeq(resolves, 1, j - 1))
                    IN  \A k \in KeysOf(before) :
                            /\ k \in DOMAIN resolves[j].ctx
                            /\ resolves[j].ctx[k] = LastOutput(before, k)

\* a request on a unit with derive f1, f2 and resolve r1, or with derive f1 and
\* two resolve functions, whose last resolve function has been called
C13_Witness ==
    \E r \in DOMAIN requests :
        \/ /\ FnsOf(StepsOf(r, "derive")) = <<"f1", "f2">>
           /\ FnsOf(StepsOf(r, "resolve")) = <<"r1">>
           /\ StepsOf(r, "resolve")[1].ctx[<<"b">>] = Str(<<"f2">>)
        \/ /\ FnsOf(StepsOf(r, "derive")) = <<"f1">>
           /\ FnsOf(StepsOf(r, "resolve")) = <<"r1", "boom">>
           /\ StepsOf(r, "resolve")[2].ctx[<<"c">>] = Str(<<"r1">>)
           /\ StepsOf(r, "resolve")[2].ctx[<<"a">>] = Str(<<"f1">>)

\* the place of a stage in the pipeline
StageRank(stage) ==
    CASE stage = "store" -> 1
      [] stage = "decorate" -> 2
      [] stage = "derive" -> 3
      [] stage = "resolve" -> 4
      [] stage = "handler" -> 5
      [] stage = "serialize" -> 6

\* C14: the steps of every request are taken in the order store, decorate, the
\* derive functions in list order, the resolve functions in list order,
\* handler, serialize; a step is taken only when every step before it has
\* settled, so at most one step of a request is unsettled, whatever the other
\* request does meanwhile.
C14_StagesInOrder ==
    \A r \in DOMAIN requests :
        LET log == requests[r].log
            u == requests[r].route.unit
        IN  requests[r].pc # "idle" =>
            /\ Len(log) >= 2 /\ log[1].stage = "store" /\ log[2].stage = "decorate"
            /\ \A p \in 1..Len(log) : \A q \in (p + 1)..Len(log) :
                    /\ StageRank(log[p].stage) <= StageRank(log[q].stage)
                    /\ log[p].stage = log[q].stage => log[p].stage \in {"derive", "resolve"}
                    /\ log[p].settled
            /\ IsPrefix(FnsOf(StepsOf(r, "derive")), units[u].deriveFunctions)
            /\ IsPrefix(FnsOf(StepsOf(r, "resolve")), units[u].resolveFunctions)
            /\ requests[r].pc \in {"derive", "resolve", "handler"} =>
                    /\ log[Len(log)].stage = requests[r].pc
                    /\ ~log[Len(log)].settled
            /\ requests[r].pc = "done" => log[Len(log)].stage = "serialize"

\* two requests of one route in flight at once, one having finished all its
\* stages while the other still awaits a derive function
C14_Witness ==
    \E r, s \in DOMAIN requests :
        /\ r # s
        /\ requests[r].pc = "derive"
        /\ requests[s].pc = "done"
        /\ Len(StepsOf(s, "derive")) >= 1
        /\ Len(StepsOf(s, "resolve")) >= 1
        /\ requests[s].route = requests[r].route

\* the requests whose wrapped handler has rejected
Rejected == {r \in DOMAIN requests : requests[r].pc = "rejected"}

\* C15: when a derive function, a resolve function or the handler throws or
\* rejects, the wrapped handler rejects there: the failing call is the last
\* step of the request and was made once, no function of a later position and
\* no handler was called after it, nothing was merged in its place and no
\* response was written.
C15_RejectionPropagates ==
    /\ \A r \in DOMAIN requests :
            \A p \in 1..Len(requests[r].log) :
                (/\ requests[r].log[p].settled
                 /\ requests[r].log[p].stage \in {"derive", "resolve", "handler"}
                 /\ Throws(requests[r].log[p].fn)) => r \in Rejected
    /\ \A r \in Rejected :
            LET log == requests[r].log
                last == log[Len(log)]
            IN  /\ last.stage \in {"derive", "resolve", "handler"}
                /\ Throws(last.fn)
                /\ \A p \in 1..(Len(log) - 1) : ~Throws(log[p].fn)
                /\ last.stage # "handler" => StepsOf(r, "handler") = <<>>
                /\ StepsOf(r, "serialize") = <<>>
                /\ requests[r].ctx = last.ctx
                /\ requests[r].writes = <<>>

\* a request rejected by its second derive function on a unit that has a
\* resolve function, and one rejected by its handler
C15_Witness ==
    \E r \in Rejected :
        \/ /\ FnsOf(StepsOf(r, "derive")) = <<"f1", "boom">>
           /\ units[requests[r].route.unit].resolveFunctions # <<>>
        \/ /\ FnsOf(StepsOf(r, "handler")) = <<"boom">>
           /\ StepsOf(r, "derive") # <<>>

\* the requests whose wrapped handler has resolved
Finished == {r \in DOMAIN requests : requests[r].pc = "done"}

\* C16: once the handler has returned, undefined leaves the response unwritten,
\* an object or an array is written once with json(), and every other value
\* (null, 0 and the empty string included) is written once with send()
\* as String(value); no request is written to more than once, and none before
\* its handler returned.
C16_SerializeByResult ==
    \A r \in DOMAIN requests :
        LET result == Returns(requests[r].route.handler)
            writes == requests[r].writes
        IN  /\ Len(writes) <= 1
            /\ r \notin Finished => writes = <<>>
            /\ r \in Finished =>
                    CASE result.t = "undefined" -> writes = <<>>
                      [] result.t \in {"object", "array"} ->
                            writes = <<[op |-> "json", value |-> result]>>
                      [] OTHER ->
                            writes = <<[op |-> "send", value |-> Str(StringOf(result))]>>

\* a handler returned null and the text "null" was sent, once
C16_Witness ==
    \E r \in Finished :
        /\ requests[r].route.handler = "null"
        /\ requests[r].writes = <<[op |-> "send", value |-> Str(<<"null">>)]>>

----------------------------------------------------------------------------
(* Claims about mounting *)

\* this step is the setup call host.use(plugin)
IsUse(host, plugin) ==
    /\ Len(setup') = Len(setup) + 1
    /\ setup'[Len(setup')] = SetupCall("use", host, plugin)

\* C17: host.use(plugin) leaves the host's store with exactly the keys the
\* host's store and the plugin's store had when use() was called (a host with
\* counter and a plugin with sessions give a store with both).
C17_MountUnitesStores ==
    [][\A host, plugin \in DOMAIN units :
            IsUse(host, plugin) =>
                DOMAIN units'[host].singletonStore =
                    DOMAIN units[host].singletonStore
                        \cup DOMAIN units[plugin].singletonStore]_vars

\* a plugin with only sessions was mounted on a host with only counter, and
\* the host's store holds both keys
C17_Witness ==
    \E i \in 1..Len(setup) :
        /\ setup[i] = SetupCall("use", "app", "plugin")
        /\ {setup[j] : j \in 1..(i - 1)} =
                {SetupCall("state", "app", <<"counter">>),
                 SetupCall("state", "plugin", <<"sessions">>)}
        /\ DOMAIN units["app"].singletonStore = {<<"counter">>, <<"sessions">>}
        /\ DOMAIN units["plugin"].singletonStore = {<<"sessions">>}

\* C18 as claimed: on host.use(plugin) the host's store keeps, for every key it
\* already holds, the value it had before the call.
C18_HostWinsOnCollision ==
    [][\A host, plugin \in DOMAIN units :
            IsUse(host, plugin) =>
                \A k \in DOMAIN units[host].singletonStore :
                    units'[host].singletonStore[k] = units[host].singletonStore[k]]_vars

\* the functions of the sequence steps up to, not including, position b
FnsBefore(steps, b) == FnsOf(SubSeq(steps, 1, b - 1))

\* on request r, which began after host.use(plugin), every derive function the
\* plugin had registered before the mount was called after every derive
\* function the host had registered before the mount, with a context carrying
\* the merged outputs of the derive functions called before it
MountedRunAfterHost(r) ==
    LET host == requests[r].route.unit
        derives == StepsOf(r, "derive")
    IN  \A j \in 1..requests[r].startedAt : \A i, l \in 1..(j - 1) :
            (/\ setup[j].op = "use" /\ setup[j].unit = host
             /\ setup[i].op = "derive" /\ setup[i].unit = host
             /\ setup[l].op = "derive" /\ setup[l].unit = setup[j].arg
             /\ setup[j].arg # host) =>
                \E a, b \in 1..Len(derives) :
                    /\ a < b
                    /\ derives[a].fn = setup[i].arg
                    /\ derives[b].fn = setup[l].arg
                    /\ \A k \in DOMAIN Output(derives[a].fn) :
                            /\ k \in DOMAIN derives[b].ctx
                            /\ derives[b].ctx[k] = LastOutput(FnsBefore(derives, b), k)

\* C19: host.use(plugin) leaves the host's derive list equal to its previous
\* derive list followed by the plugin's derive list, and likewise its resolve
\* list; so on every handled request of the host each mounted derive function
\* ran after the host's derive functions registered before the mount and
\* received their merged outputs.
C19_MountAppendsLists ==
    /\ [][\A host, plugin \in DOMAIN units :
            IsUse(host, plugin) =>
                /\ units'[host].deriveFunctions =
                        units[host].deriveFunctions \o units[plugin].deriveFunctions
                /\ units'[host].resolveFunctions =
                        units[host].resolveFunctions \o units[plugin].resolveFunctions]_vars
    /\ [](\A r \in Handled : MountedRunAfterHost(r))

\* a handled request of a host with derive f1 on which a plugin with derive f2
\* was mounted: f2 ran second and received f1's values
C19_Witness ==
    \E r \in Handled :
        /\ requests[r].route.unit = "app"
        /\ Len(setup) >= 3
        /\ SubSeq(setup, 1, 3) = <<SetupCall("derive", "app", "f1"),
                                   SetupCall("derive", "plugin", "f2"),
                                   SetupCall("use", "app", "plugin")>>
        /\ FnsOf(StepsOf(r, "derive")) = <<"f1", "f2">>
        /\ StepsOf(r, "derive")[2].ctx[<<"a">>] = Str(<<"f1">>)
        /\ HandlerCtx(r)[<<"b">>] = Str(<<"f2">>)

\* C20 as claimed: every decorator registered on a plugin before
\* host.use(plugin) is on the context handed to the handler of every request
\* of the host that began after the mount.
C20_MountedDecoratorsOnContext ==
    \A r \in Handled :
        \A j \in 1..requests[r].startedAt : \A i \in 1..(j - 1) :
            (/\ setup[j].op = "use" /\ setup[j].unit = requests[r].route.unit
             /\ setup[i].op = "decorate" /\ setup[i].unit = setup[j].arg) =>
                /\ setup[i].arg \in DOMAIN HandlerCtx(r)
                /\ HandlerCtx(r)[setup[i].arg] = units[setup[j].arg].decorators[setup[i].arg]

----------------------------------------------------------------------------
(* Claims about decorators, chains and the store *)

\* the requests a wrapped handler has been called for
Begun == {r \in DOMAIN requests : requests[r].pc # "idle"}

\* the context the Decorate stage of request r left
DecoratedCtx(r) == StepsOf(r, "decorate")[1].ctx

\* C21 as claimed: for every route of a unit and every request to it, the
\* Decorate stage leaves on the context every decorator key registered on the
\* unit by the time the request is handled, with the last value registered
\* for it, whatever the order of the decorate() calls and the route
\* registrations.
C21_DecoratorsOnContext ==
    \A r \in Begun :
        LET d == units[requests[r].route.unit].decorators
        IN  (requests[r].startedAt = Len(setup) /\ d # Undefined) =>
                \A k \in DOMAIN d :
                    /\ k \in DOMAIN DecoratedCtx(r)
                    /\ DecoratedCtx(r)[k] = d[k]

\* the URL of request url is dom, "/", the segments joined by "/", and then
\* nothing or a query string
UrlOverSegments(url, dom, segments) ==
    LET base == dom \o <<"/">> \o Join(segments, <<"/">>)
    IN  /\ IsPrefix(base, url)
        /\ Len(url) > Len(base) => url[Len(base) + 1] = <<"?">>[1]

\* C22: member(name) and call(arg) never modify the segment list of the
\* accumulator they are applied to: every accumulator and every bound verb
\* caller keeps its segment list across every step (building steps of other
\* chains and steps of calls in flight included), a verb invocation takes the
\* segment list of the caller it is made on, and the request it issues is for
\* exactly those segments.
C22_AccumulatorsImmutable ==
    /\ [][/\ proxies \subseteq proxies'
          /\ callers \subseteq callers'
          /\ \A c \in DOMAIN calls :
                /\ calls[c].pc # "idle" => calls'[c].paths = calls[c].paths
                /\ (calls[c].pc = "idle" /\ calls'[c].pc # "idle") =>
                        [paths |-> calls'[c].paths, method |-> calls'[c].method]
                            \in callers]_vars
    /\ [](\A c \in Sent : UrlOverSegments(calls[c].sent.url, domain, calls[c].paths))

\* two chains were derived from the root, one by member("users") and one by
\* call({id: "123"}); the root is still over no segment, and the request of
\* the first chain is out without the second chain's segment
C22_Witness ==
    /\ {<<>>, << <<"users">> >>, << <<"123">> >>} \subseteq proxies
    /\ \E c \in Sent :
            /\ calls[c].paths = << <<"users">> >>
            /\ ~Includes(calls[c].sent.url, <<"123">>)
            /\ Includes(calls[c].sent.url, <<"users">>)

\* C23: a step that builds a chain (a new accumulator or a new bound verb
\* caller) leaves the number of network calls of every call unchanged; a verb
\* invocation has made no network call while headers are resolved or the
\* pre-request hook runs, none at all if one of them rejected, and exactly one
\* from then on, whatever the response status and whichever later step
\* rejects: the request is never issued a second time.
C23_OneNetworkCallPerInvocation ==
    /\ [][(proxies' # proxies \/ callers' # callers) =>
            \A c \in DOMAIN calls : calls'[c].fetchCalls = calls[c].fetchCalls]_vars
    /\ [](\A c \in DOMAIN calls :
            calls[c].fetchCalls =
                CASE calls[c].pc \in {"idle", "resolveHeaders", "onRequest"} -> 0
                  [] calls[c].pc = "rejected" ->
                        (IF calls[c].rejectedBy \in {"resolveHeaders", "onRequest"}
                         THEN 0 ELSE 1)
                  [] OTHER -> 1)

\* a call over a built chain came back with status 404 and a body that failed
\* to parse: the call rejected after one network call
C23_Witness ==
    /\ Cardinality(proxies) >= 2
    /\ \E c \in DOMAIN calls :
            /\ calls[c].pc = "rejected"
            /\ calls[c].rejectedBy = "parse"
            /\ calls[c].response.status = 404
            /\ Len(calls[c].paths) >= 1
            /\ calls[c].fetchCalls = 1

\* the request, as its context names it
ReqOf(r) == Num(<<IndexText(r)>>)

RECURSIVE MergedUpTo(_, _)
\* the context of request r after the steps 1..i of its own log: what the
\* Decorate stage left, with the return value of each settled derive or
\* resolve call among them merged in order
MergedUpTo(r, i) ==
    LET s == requests[r].log[i]
    IN  IF i <= 2 THEN requests[r].log[2].ctx
        ELSE IF s.stage \in {"derive", "resolve"} /\ s.settled
        THEN assigned(MergedUpTo(r, i - 1), ReturnsOn(s.fn, s.ctx))
        ELSE MergedUpTo(r, i - 1)

\* C24: with two requests in flight on one unit, in every interleaving, the
\* context of a request holds that request under req, the unit's store under
\* store unless one of its own stages replaced it, and, for the rest, exactly
\* what the decorate stage and the return values of the derive and resolve
\* calls of its own pipeline merged onto it: no value a stage merged for the
\* other request is on it.
C24_ContextsIsolated ==
    \A r \in Begun :
        LET log == requests[r].log
        IN  /\ log[1].ctx = ObjectAssign(TransportContextOf(r),
                                <<"store">> :> StoreOf(requests[r].route.unit))
            /\ \A i \in 3..Len(log) :
                    /\ log[i].ctx = MergedUpTo(r, i - 1)
                    /\ log[i].ctx[<<"req">>] = ReqOf(r)
                    /\ <<"who">> \in DOMAIN log[i].ctx => log[i].ctx[<<"who">>] = ReqOf(r)
            /\ requests[r].ctx = MergedUpTo(r, Len(log))

\* both requests are in flight on the same unit, each past the derive function
\* that names its request, and each context names its own
C24_Witness ==
    /\ requests[1].pc \in {"resolve", "handler"}
    /\ requests[2].pc \in {"resolve", "handler"}
    /\ requests[1].route.unit = requests[2].route.unit
    /\ Get(requests[1].ctx, <<"who">>) = ReqOf(1)
    /\ Get(requests[2].ctx, <<"who">>) = ReqOf(2)

\* C25 as claimed: for every set of registered decorators, derive functions and
\* resolve functions, the context handed to the handler carries the unit's
\* store under the key store.
C25_StoreAlwaysOnContext ==
    \A r \in Handled : HandlerCtx(r)[<<"store">>] = StoreOf(requests[r].route.unit)

\* the Decorate stage of request r copied a decorator named store
StoreKeyDecorated(r) ==
    /\ requests[r].route.decorated
    /\ \E i \in 1..requests[r].startedAt :
            setup[i] = SetupCall("decorate", requests[r].route.unit, <<"store">>)

\* a derive or resolve call of request r returned an object with a key store
StoreKeyReturned(r) ==
    \E i \in 1..Len(requests[r].log) :
        LET s == requests[r].log[i]
        IN  /\ s.stage \in {"derive", "resolve"}
            /\ s.settled
            /\ <<"store">> \in DOMAIN assigned(EmptyObject, ReturnsOn(s.fn, s.ctx))

\* C25: the context handed to the handler carries under store the store of the
\* route's unit itself, for every request and every route, whenever no stage
\* put a key named store of its own on the context (a decorator named store
\* takes its place otherwise); a function called with that context reads the
\* unit's store as it is at that moment, and what a function writes through it
\* is written to the unit's store, so that a later request reads it.
C25_LiveStoreUnlessReplaced ==
    /\ [](\A r \in Handled :
            IF StoreKeyDecorated(r)
            THEN HandlerCtx(r)[<<"store">>] # StoreOf(requests[r].route.unit)
            ELSE ~StoreKeyReturned(r) =>
                    HandlerCtx(r)[<<"store">>] = StoreOf(requests[r].route.unit))
    /\ [][\A r \in DOMAIN requests :
            LET u == requests'[r].route.unit
            IN  /\ (/\ requests'[r].pending /\ ~requests[r].pending
                    /\ requests'[r].ctx[<<"store">>] = StoreOf(u)) =>
                        requests'[r].held = Get(units[u].singletonStore, <<"counter">>)
                /\ (/\ requests[r].pending /\ ~requests'[r].pending
                    /\ requests[r].ctx[<<"store">>] = StoreOf(u)) =>
                        Get(units'[u].singletonStore, <<"counter">>) =
                            PlusOne(requests[r].held)]_vars

\* request 1 incremented the counter of the store from 0 and finished; request
\* 2, handled by another route of the unit, read 1 from the store on its
\* context
C25_Witness ==
    /\ requests[1].pc = "done"
    /\ requests[1].held = Num(<<"0">>)
    /\ requests[2].pc # "idle"
    /\ requests[2].route # requests[1].route
    /\ requests[2].route.unit = requests[1].route.unit
    /\ requests[2].held = Num(<<"1">>)

\* the calls of the incrementing function that have resumed, over all requests
Increments ==
    {<<r, i>> \in (DOMAIN requests) \X (1..(MaxSetup + 3)) :
        /\ i <= Len(requests[r].log)
        /\ Suspends(requests[r].log[i].fn)
        /\ (i < Len(requests[r].log) \/ ~requests[r].pending)}

\* C26: nothing orders the reads and writes of the store by two requests: a
\* function that read the counter, suspended and resumes writes back the value
\* it read plus one whatever the counter holds by then, so when the handlers
\* of two requests read the same value before either wrote, the counter ends
\* one above that value although two increments were made (a lost update),
\* as long as no setup call has set the counter since.
C26_LostUpdate ==
    /\ [][\A r \in DOMAIN requests :
            (/\ requests[r].pending /\ ~requests'[r].pending
             /\ requests'[r].pc # "rejected") =>
                Get(units'[requests[r].route.unit].singletonStore, <<"counter">>) =
                    PlusOne(requests[r].held)]_vars
    /\ [](\A r, q \in Finished :
            (/\ r # q
             /\ requests[r].route = requests[q].route
             /\ Suspends(requests[r].route.handler)
             /\ requests[r].held = requests[q].held
             /\ requests[r].startedAt = Len(setup)
             /\ requests[q].startedAt = Len(setup)
             /\ \A i \in 1..Len(requests[r].log) :
                    requests[r].log[i].stage \in {"derive", "resolve"} =>
                        ~Suspends(requests[r].log[i].fn)) =>
                Get(units[requests[r].route.unit].singletonStore, <<"counter">>) =
                    PlusOne(requests[r].held))

\* two requests to the route whose handler increments the counter have
\* finished, each made one increment from 0, and the counter holds 1
C26_Witness ==
    /\ requests[1].pc = "done"
    /\ requests[2].pc = "done"
    /\ requests[1].route = requests[2].route
    /\ Suspends(requests[1].route.handler)
    /\ Cardinality(Increments) = 2
    /\ requests[1].held = Num(<<"0">>)
    /\ requests[2].held = Num(<<"0">>)
    /\ units[requests[1].route.unit].singletonStore[<<"counter">>] = Num(<<"1">>)

\* request r has left the derive stage without a rejection
DeriveStageDone(r) ==
    \E i \in 1..Len(requests[r].log) : requests[r].log[i].stage \in {"resolve", "handler"}

\* C27: the derive functions called for a request are, in order and once each,
\* the functions of the unit's derive list from its start on; on a unit on
\* which nothing was mounted they are the derive functions registered on the
\* unit, in registration order, all of those registered before the request
\* began once the request has left the derive stage without a rejection;
\* likewise the resolve functions once the handler has been called; whether
\* the request's route was registered before or after them.
C27_EachFunctionOnceInOrder ==
    \A r \in Begun :
        LET u == requests[r].route.unit
            derived == FnsOf(StepsOf(r, "derive"))
            resolved == FnsOf(StepsOf(r, "resolve"))
        IN  /\ IsPrefix(derived, units[u].deriveFunctions)
            /\ IsPrefix(resolved, units[u].resolveFunctions)
            /\ ~MountedOn(u, Len(setup)) =>
                /\ IsPrefix(derived, Registered(u, "derive", Len(setup)))
                /\ IsPrefix(resolved, Registered(u, "resolve", Len(setup)))
                /\ DeriveStageDone(r) =>
                        IsPrefix(Registered(u, "derive", requests[r].startedAt), derived)
                /\ r \in Handled =>
                        IsPrefix(Registered(u, "resolve", requests[r].startedAt), resolved)

\* a route was registered first, then derive f1, derive f2 and resolve r1; a
\* request to the route reached the handler after f1, f2 and r1 were called
C27_Witness ==
    \E r \in Handled :
        /\ Len(setup) = 4
        /\ setup[1].op = "route"
        /\ <<setup[2], setup[3], setup[4]>> =
                <<SetupCall("derive", "app", "f1"), SetupCall("derive", "app", "f2"),
                  SetupCall("resolve", "app", "r1")>>
        /\ FnsOf(StepsOf(r, "derive")) = <<"f1", "f2">>
        /\ FnsOf(StepsOf(r, "resolve")) = <<"r1">>

\* C28 as claimed: after host.use(plugin), every route registered on the
\* mounted unit before the mount is registered with the host's internal
\* server.
C28_MountMergesRoutes ==
    \A j \in 1..Len(setup) : \A i \in 1..(j - 1) :
        (/\ setup[j].op = "use"
         /\ setup[j].arg # setup[j].unit
         /\ setup[i].op = "route"
         /\ setup[i].unit = setup[j].arg) =>
            \E route \in routes :
                /\ route.unit = setup[j].unit
                /\ route.handler = setup[i].arg

----------------------------------------------------------------------------
(* Claims about member(name) and call(arg) *)

\* the seven verb names
VerbNames ==
    {<<"get">>, <<"post">>, <<"put">>, <<"delete">>, <<"patch">>, <<"head">>,
     <<"options">>}

\* member names: the verbs, "index", and names that are neither
MemberNames ==
    VerbNames \cup {<<"index">>, <<"users">>, <<"GET">>, <<"getAll">>, <<"Index">>,
                    <<"indexes">>, <<>>}

\* C29: member(name) on an accumulator over S is a verb caller over S bound to
\* name when name is one of the seven verbs, an accumulator over S itself when
\* name is "index" (so that a verb caller taken after index requests the URL of
\* the one taken directly), and an accumulator over S followed by name for
\* every other name; a step adds only such callers and accumulators.
C29_MemberByName ==
    /\ [](\A S \in proxies, name \in MemberNames :
            LET got == createProxyGet(S, name)
            IN  IF name \in VerbNames
                THEN got = [kind |-> "caller", paths |-> S, method |-> name]
                ELSE IF name = <<"index">>
                THEN /\ got.kind = "proxy"
                     /\ got.paths = S
                     /\ createProxyGet(got.paths, <<"get">>) = createProxyGet(S, <<"get">>)
                     /\ urlOf(domain, got.paths, EmptyObject) = urlOf(domain, S, EmptyObject)
                ELSE /\ got.kind = "proxy"
                     /\ got.paths = S \o <<name>>)
    /\ [][/\ \A k \in callers' \ callers : k.method \in VerbNames /\ k.paths \in proxies
          /\ \A S \in proxies' \ proxies :
                /\ S # <<>> => SubSeq(S, 1, Len(S) - 1) \in proxies
                /\ \A i \in 1..Len(S) : S[i] # <<"index">>]_vars

\* over the accumulator reached by member("users"), whose segments are just
\* "users", the verb caller for options was taken, and a request made through a
\* caller of the root (taken directly or after index) went to the bare domain
C29_Witness ==
    /\ [paths |-> << <<"users">> >>, method |-> <<"options">>] \in callers
    /\ \E c \in Sent :
            /\ calls[c].paths = <<>>
            /\ calls[c].sent.url = domain \o <<"/">>

\* the arguments of call(arg) with the segment each appends, if any
CallCases ==
    {[arg |-> Obj(<<Entry(<<"id">>, Str(<<"123">>)), Entry(<<"x">>, Str(<<"9">>))>>),
      adds |-> << <<"123">> >>],
     [arg |-> Obj(<<Entry(<<"id">>, Num(<<"7">>))>>), adds |-> << <<"7">> >>],
     [arg |-> Obj(<<Entry(<<"k">>, Null), Entry(<<"id">>, Str(<<"1">>))>>),
      adds |-> << <<"null">> >>],
     [arg |-> Obj(<<Entry(<<"k">>, Undefined)>>), adds |-> << <<"undefined">> >>],
     [arg |-> Obj(<<Entry(<<"k">>, Str(<<>>))>>), adds |-> << <<>> >>],
     [arg |-> Arr(<<Str(<<"a">>), Str(<<"b">>)>>), adds |-> << <<"a">> >>],
     [arg |-> Obj(<<>>), adds |-> <<>>],
     [arg |-> Arr(<<>>), adds |-> <<>>],
     [arg |-> Blob("a"), adds |-> <<>>],
     [arg |-> Str(<<"123">>), adds |-> <<>>],
     [arg |-> Num(<<"7">>), adds |-> <<>>],
     [arg |-> Num(<<"0">>), adds |-> <<>>],
     [arg |-> Bool(<<"true">>), adds |-> <<>>],
     [arg |-> Null, adds |-> <<>>],
     [arg |-> Undefined, adds |-> <<>>]}

\* C30: call(arg) on an accumulator over S is an accumulator over S followed by
\* the string of the first enumerated value of arg when arg is an object with
\* at least one value, whatever its other keys hold, and an accumulator over S
\* itself for no argument, null, a value that is not an object, and an object
\* with no keys; a step adds no accumulator but these and those member("users")
\* yields.
C30_CallByArgument ==
    /\ [](\A S \in proxies, case \in CallCases :
            /\ createProxyApply(S, case.arg) = S \o case.adds
            /\ (case.arg.t \in {"object", "array"} /\ case.arg.v # <<>>) =>
                    /\ Len(case.adds) = 1
                    /\ case.adds[1] = StringOf(ObjectValues(case.arg)[1]))
    /\ [][\A S \in proxies' \ proxies :
            S # <<>> =>
                \E T \in proxies :
                    \/ S = Append(T, <<"users">>)
                    \/ \E case \in CallCases : case.adds # <<>> /\ S = T \o case.adds]_vars

\* the root was called with {id: "123", x: "9"} and with ["a", "b"]: the
\* accumulators over "123" and over "a" exist, none over "9" or "b", and the
\* root is still there
C30_Witness ==
    /\ {<<>>, << <<"123">> >>, << <<"a">> >>} \subseteq proxies
    /\ \A S \in proxies : \A i \in 1..Len(S) : S[i] \notin {<<"9">>, <<"b">>}

----------------------------------------------------------------------------
(* Claims about the steps of a verb call *)

\* the calls of a body-carrying verb whose body holds no binary attachment
PlainBodied ==
    {c \in Sent : /\ ~isGetOrHead(calls[c].method)
                  /\ ~isFile(calls[c].bodyOrOptions)
                  /\ ~ContainsFile(calls[c].bodyOrOptions)}

\* what the pre-request hook of call c returned, as an object
HookReturn(c) ==
    IF calls[c].modified \in {Undefined, Null} THEN EmptyObject ELSE calls[c].modified

\* the body and the content type the body of call c is encoded to
EncodedBody(c) ==
    LET body == calls[c].bodyOrOptions
    IN  IF body.t \in {"object", "array"}
        THEN [body |-> Str(JSONStringify(body)), type |-> "application/json"]
        ELSE [body |-> Str(StringOf(body)), type |-> "text/plain"]

\* the header sources of call c that name content-type
NamesContentType(c) ==
    "content-type" \in DOMAIN BaseHeaders \cup DOMAIN ConfigHeaders(c)
        \cup DOMAIN CallHeaders(c) \cup DOMAIN OverrideHeaders(c)
        \cup DOMAIN HookHeaders(c)

\* C31 as claimed, for calls whose pre-request hook returned nothing: an object
\* body is sent JSON-encoded with content-type application/json, any other
\* present body as its string with content-type text/plain, and with an
\* undefined or null body the request carries no body and no content-type but
\* one a header source names.
C31_BodyEncodedOrAbsent ==
    \A c \in PlainBodied :
        HookReturn(c) = EmptyObject =>
            IF calls[c].bodyOrOptions \in {Undefined, Null}
            THEN /\ "body" \notin DOMAIN calls[c].sent.init
                 /\ "content-type" \in DOMAIN SentHeaders(c) => NamesContentType(c)
            ELSE /\ calls[c].sent.init.body = EncodedBody(c).body
                 /\ SentHeaders(c)["content-type"] = EncodedBody(c).type

\* C31 amended: a present body is encoded over whatever the base request
\* options and the per-call fetch override gave: JSON and application/json for
\* an object, its string and text/plain for anything else; for an undefined or
\* null body nothing is encoded, so the request carries a body only when those
\* options or the pre-request hook give one, and a content-type only when a
\* header source names it; a body or a headers member the hook returns
\* replaces the encoded one.
C31_BodyEncodedUnlessGiven ==
    \A c \in PlainBodied :
        LET init == calls[c].sent.init
            hook == HookReturn(c)
        IN  IF calls[c].bodyOrOptions \in {Undefined, Null}
            THEN /\ "body" \in DOMAIN init <=>
                        "body" \in DOMAIN GivenInit(c) \cup DOMAIN hook
                 /\ "body" \in DOMAIN init =>
                        init.body = IF "body" \in DOMAIN hook THEN hook.body
                                    ELSE GivenInit(c).body
                 /\ "content-type" \in DOMAIN SentHeaders(c) => NamesContentType(c)
            ELSE /\ init.body = IF "body" \in DOMAIN hook THEN hook.body
                                ELSE EncodedBody(c).body
                 /\ "headers" \notin DOMAIN hook =>
                        SentHeaders(c)["content-type"] = EncodedBody(c).type

\* a post of {name: "John"} with per-call content-type text/csv went out as the
\* JSON text with content-type application/json
C31_Witness ==
    \E c \in PlainBodied :
        /\ calls[c].bodyOrOptions = John
        /\ "content-type" \in DOMAIN CallHeaders(c)
        /\ calls[c].sent.init.body =
                Str(<<"{", "\"", "name", "\"", ":", "\"", "John", "\"", "}">>)
        /\ SentHeaders(c)["content-type"] = "application/json"

\* the calls made with a pre-request hook configured
Hooked == {c \in DOMAIN calls : calls[c].pc # "idle" /\ config.onRequest}

\* C32: with a pre-request hook configured, the hook is invoked once per verb
\* call and before the network call, with the path "/" + join(S, "/") (no
\* domain, no query string) and the init that carries the encoded body and the
\* merged headers; the network call receives the hook's value spread over that
\* init, member by member, or that init when the hook returned nothing; after
\* the network call the hook is not invoked again.
C32_HookOnceBeforeFetch ==
    /\ [](\A c \in Hooked :
            /\ calls[c].onRequestCalls <= 1
            /\ calls[c].fetchCalls <= calls[c].onRequestCalls
            /\ calls[c].pc = "onRequest" => calls[c].fetchCalls = 0
            /\ calls[c].onRequestCalls = 1 =>
                /\ calls[c].onRequestArgs.path =
                        <<"/">> \o Join(calls[c].paths, <<"/">>)
                /\ LET init == calls[c].onRequestArgs.init
                       body == calls[c].bodyOrOptions
                       others == DOMAIN initHeaders(init) \ {"content-type"}
                   IN  /\ (/\ ~isGetOrHead(calls[c].method)
                            /\ body \notin {Undefined, Null}
                            /\ ~isFile(body) /\ ~ContainsFile(body)) =>
                                /\ init.body = EncodedBody(c).body
                                /\ initHeaders(init)["content-type"] = EncodedBody(c).type
                       /\ "headers" \notin DOMAIN GivenInit(c) =>
                                /\ others = (DOMAIN ConfigHeaders(c) \cup DOMAIN CallHeaders(c))
                                                \ {"content-type"}
                                /\ \A k \in others :
                                        initHeaders(init)[k] =
                                            IF k \in DOMAIN CallHeaders(c)
                                            THEN CallHeaders(c)[k]
                                            ELSE ConfigHeaders(c)[k]
            /\ c \in Sent =>
                LET given == calls[c].onRequestArgs.init
                    hook == calls[c].modified
                IN  IF hook = Undefined THEN calls[c].sent.init = given
                    ELSE /\ DOMAIN calls[c].sent.init = DOMAIN given \cup DOMAIN hook
                         /\ \A k \in DOMAIN calls[c].sent.init :
                                calls[c].sent.init[k] =
                                    IF k \in DOMAIN hook THEN hook[k] ELSE given[k])
    /\ [][\A c \in DOMAIN calls :
            calls[c].fetchCalls > 0 =>
                calls'[c].onRequestCalls = calls[c].onRequestCalls]_vars

\* a post with a query and a body went out with the hook's headers in place of
\* the computed ones and the encoded body kept; the hook got the path alone
C32_Witness ==
    \E c \in Hooked \cap Sent :
        /\ calls[c].onRequestCalls = 1
        /\ calls[c].method = <<"post">>
        /\ calls[c].bodyOrOptions = John
        /\ calls[c].options = LimitOptions
        /\ calls[c].url # HttpLocalhost3000 \o calls[c].onRequestArgs.path
        /\ calls[c].modified = [headers |-> ("x-hook" :> "hook") @@ ("authorization" :> "hook")]
        /\ calls[c].sent.init.headers = calls[c].modified.headers
        /\ calls[c].sent.init.body = calls[c].onRequestArgs.init.body
        /\ calls[c].onRequestArgs.init.headers # calls[c].modified.headers

\* the post-response hook of call c was invoked and has returned
HookReturned(c) ==
    /\ calls[c].onResponseCalls > 0
    /\ \/ calls[c].pc \in {"parse", "done"}
       \/ calls[c].pc = "rejected" /\ calls[c].rejectedBy = "parse"

\* C33: with a post-response hook configured, the hook is invoked once, after
\* the network call, with a duplicate of the response (the body it reads is the
\* duplicate's); a value it returns other than null/undefined, the falsy 0, ""
\* and false included, is the parsed data of the envelope and the default
\* parsing is not run; when it returns null or undefined the default parsing
\* runs, once, on the original response, whose body is still unread.
C33_HookValueReplacesParse ==
    \A c \in DOMAIN calls :
        /\ calls[c].onResponseCalls <= 1
        /\ calls[c].onResponseCalls <= calls[c].fetchCalls
        /\ (config # Undefined /\ config.onResponse /\ calls[c].response # Undefined) =>
                calls[c].onResponseCalls = 1
        /\ calls[c].bodyUsed \subseteq {"clone"}
        /\ HookReturned(c) =>
            IF calls[c].result \notin {Undefined, Null}
            THEN /\ calls[c].pc = "done"
                 /\ calls[c].parseCalls = 0
                 /\ calls[c].data = calls[c].result
                 /\ Classified(c, calls[c].result)
            ELSE /\ calls[c].parseCalls = 1
                 /\ calls[c].pc = "done" =>
                        /\ calls[c].data = ParseOf(calls[c].response)
                        /\ Classified(c, ParseOf(calls[c].response))

\* the hook read the duplicate and returned false for a 200 JSON response:
\* false came back as data, unparsed
C33_Witness ==
    \E c \in Done :
        /\ calls[c].onResponseCalls = 1
        /\ calls[c].result = Bool(<<"false">>)
        /\ calls[c].bodyUsed = {"clone"}
        /\ calls[c].response.status = 200
        /\ calls[c].envelope.data = Bool(<<"false">>)
        /\ calls[c].envelope.error = Null
        /\ calls[c].parseCalls = 0

\* the hook read the duplicate and returned null: the original was parsed
C33_ParsedAfterHook ==
    \E c \in Done :
        /\ calls[c].result = Null
        /\ calls[c].bodyUsed = {"clone"}
        /\ calls[c].parseCalls = 1
        /\ calls[c].envelope.data = Obj(<<Entry(<<"id">>, Str(<<"1">>))>>)

\* the steps of a verb call, in the order of the code
StepOrder ==
    <<"idle", "resolveHeaders", "onRequest", "fetch", "onResponse", "parse", "done">>

\* the position of a step in that order
StepIndex(pc) == CHOOSE i \in 1..Len(StepOrder) : StepOrder[i] = pc

\* the config has a header provider function
HasProvider ==
    config # Undefined /\ config.headers # Undefined /\ config.headers.kind = "function"

\* C34: in every verb call the steps come in the order header source resolved
\* (the provider invoked once per call), body encoded, pre-request hook, network
\* call, post-response hook, default parse, classification: a step begins only
\* when the one before it has completed, no step is taken twice, and after a
\* rejection by the header provider or by the pre-request hook the network call
\* is never issued.
C34_StepsInOrder ==
    /\ [][\A c \in DOMAIN calls :
            calls'[c] # calls[c] =>
                /\ calls[c].pc \notin {"done", "rejected"}
                /\ calls'[c].pc # "rejected" =>
                        StepIndex(calls'[c].pc) > StepIndex(calls[c].pc)
                /\ calls'[c].pc = "rejected" => calls'[c].rejectedBy = calls[c].pc
                /\ calls'[c].providerCalls # calls[c].providerCalls =>
                        calls[c].pc = "idle" /\ HasProvider
                /\ calls'[c].init # calls[c].init =>
                        \/ calls[c].pc = "resolveHeaders"
                        \/ calls[c].pc = "onRequest" /\ calls'[c].pc = "fetch"
                /\ calls'[c].onRequestCalls # calls[c].onRequestCalls =>
                        /\ calls[c].pc = "resolveHeaders"
                        /\ calls'[c].init # EmptyObject
                /\ calls'[c].fetchCalls # calls[c].fetchCalls =>
                        /\ calls[c].pc = IF config.onRequest THEN "onRequest"
                                         ELSE "resolveHeaders"
                        /\ calls'[c].onRequestCalls = IF config.onRequest THEN 1 ELSE 0
                /\ calls'[c].onResponseCalls # calls[c].onResponseCalls =>
                        calls[c].pc = "fetch" /\ calls'[c].response # Undefined
                /\ calls'[c].parseCalls # calls[c].parseCalls =>
                        /\ calls[c].pc = IF config.onResponse THEN "onResponse" ELSE "fetch"
                        /\ calls'[c].onResponseCalls = IF config.onResponse THEN 1 ELSE 0
                /\ calls'[c].envelope # calls[c].envelope =>
                        /\ calls'[c].pc = "done"
                        /\ calls[c].pc = "parse" \/ calls[c].parseCalls = 0]_vars
    /\ [](\A c \in DOMAIN calls :
            /\ calls[c].providerCalls =
                    IF HasProvider /\ calls[c].pc # "idle" THEN 1 ELSE 0
            /\ calls[c].onRequestCalls <= 1 /\ calls[c].fetchCalls <= 1
            /\ calls[c].onResponseCalls <= 1 /\ calls[c].parseCalls <= 1
            /\ calls[c].pc \in {"idle", "resolveHeaders"} => calls[c].init = EmptyObject
            /\ calls[c].threw \in {"resolveHeaders", "onRequest"} =>
                    /\ calls[c].pc = "rejected"
                    /\ calls[c].fetchCalls = 0
                    /\ calls[c].sent = Undefined)

\* a call went through every step, each once
C34_Witness ==
    \E c \in Done :
        /\ calls[c].providerCalls = 1
        /\ calls[c].onRequestCalls = 1
        /\ calls[c].fetchCalls = 1
        /\ calls[c].onResponseCalls = 1
        /\ calls[c].parseCalls = 1
        /\ calls[c].envelope # NoEnvelope

\* the pre-request hook rejected after the provider resolved: nothing was sent
C34_RejectedBeforeFetch ==
    \E c \in DOMAIN calls :
        /\ calls[c].threw = "onRequest"
        /\ calls[c].providerCalls = 1
        /\ calls[c].fetchCalls = 0

----------------------------------------------------------------------------
(* Claims about route registration *)

\* the base path unit u is configured with: its prefix, or none
BasePath(u) ==
    IF "prefix" \in DOMAIN units[u].config THEN units[u].config.prefix ELSE <<>>

\* the handlers users pass to the route methods
UserHandlers == {c.fn : c \in RoutesUniverse.handlers}

\* C35: registering a route (method, path, schema?, handler) on a unit makes
\* one call on the unit's underlying server, of the method's lower-case name,
\* with the path prefixed by the unit's base path (the path as given when the
\* unit has no prefix), the schema when there is one, and a wrapped handler
\* that runs the context pipeline before the user's handler; what is registered
\* is never the user's handler itself, and nothing else registers anything.
C35_RouteRegisteredUnderPrefix ==
    /\ [][registered' # registered =>
            \E u \in DOMAIN units, at \in RoutesUniverse.routings, h \in UserHandlers :
                LET wrapped == [unit |-> u, handler |-> h,
                                decorated |-> units[u].decorators # Undefined]
                    call == [unit |-> u,
                             method |-> ToLowerCase(at.method),
                             args |-> [argc |-> IF at.schema = Undefined THEN 2 ELSE 3,
                                       path |-> BasePath(u) \o at.path,
                                       middlewares |-> IF at.schema = Undefined
                                                       THEN <<>> ELSE <<at.schema>>,
                                       handler |-> wrapped]]
                IN  /\ setup' = Append(setup, SetupCall("route", u, h))
                    /\ registered' = registered \cup {call}
                    /\ routes' = routes \cup {wrapped}]_vars
    /\ [][setup' # setup /\ setup'[Len(setup')].op = "route" =>
            Cardinality(registered') = Cardinality(registered) + 1]_vars
    /\ [](\A call \in registered :
            /\ DOMAIN call.args.handler = {"unit", "handler", "decorated"}
            /\ call.args.handler \in routes
            /\ call.args.handler.unit = call.unit
            /\ call.args.handler.handler \in UserHandlers
            /\ call.method \in {"get", "post"})
    /\ [](\A route \in routes :
            \E call \in registered : call.args.handler = route)

\* on a unit with prefix "/api/v1", post("/users/:id", schema, handler) was
\* registered as "/api/v1/users/:id" with the schema and a wrapped handler
C35_Witness ==
    \E call \in registered :
        /\ units[call.unit].config = [prefix |-> <<"/api", "/v1">>]
        /\ call.method = "post"
        /\ call.args.argc = 3
        /\ call.args.path = <<"/api", "/v1", "/users", "/", ":id">>
        /\ call.args.middlewares = <<UserSchema>>
        /\ call.args.handler.handler = "void"

\* on a unit without a prefix the path was registered as given
C35_Unprefixed ==
    \E call \in registered :
        /\ units[call.unit].config = EmptyObject
        /\ call.args.path = <<"/users", "/", ":id">>
        /\ call.args.argc = 2

----------------------------------------------------------------------------
(* Claims about the client config *)

\* C36: the config is read-only for the client's lifetime: no step of a verb
\* call changes the config object, its static header map or its base request
\* options, whatever headers and body the call passes and whatever its
\* pre-request hook does to the init it receives, and no call is sent a header
\* that only another call's hook wrote.
C36_ConfigReadOnly ==
    [][constructed => config' = config]_vars

\* a hook wrote a header into the init of a get call under base options with
\* headers, and the header is in the config's base options
C36_WrittenThrough ==
    /\ constructed
    /\ "headers" \in DOMAIN config.fetchOptions
    /\ "x-hook" \in DOMAIN config.fetchOptions.headers

----------------------------------------------------------------------------
(* Claims about the store under concurrent requests *)

\* the calls of the synchronously incrementing function made so far
Bumps ==
    {<<r, i>> \in (DOMAIN requests) \X (1..(MaxSetup + 3)) :
        /\ i <= Len(requests[r].log)
        /\ IncrementsNow(requests[r].log[i].fn)}

\* the requests that are past the derive stage having made such a call there
Counted ==
    {r \in DOMAIN requests :
        /\ requests[r].pc \in {"resolve", "handler", "done"}
        /\ \E i \in 1..Len(requests[r].log) :
                /\ requests[r].log[i].stage = "derive"
                /\ IncrementsNow(requests[r].log[i].fn)}

\* the counter was set at setup, and by no setup call since the first request
\* began
CounterKept ==
    /\ \E i \in 1..Len(setup) : setup[i].op = "state" /\ setup[i].unit = "app"
    /\ \A i \in 1..Len(setup) :
            (setup[i].op = "state" /\ setup[i].unit = "app") =>
                \A r \in DOMAIN requests :
                    requests[r].pc # "idle" => i <= requests[r].startedAt

\* C37: a derive function that increments a store counter with no suspension
\* between its read and its write loses no increment under any interleaving of
\* requests: the counter set to 0 at setup holds the number of calls of the
\* function made so far, every step that makes such a call raises it by one
\* and no other step of a request changes it, and the requests past the derive
\* stage each carry a counter value of their own on the context.
C37_NoLostIncrement ==
    /\ [](CounterKept =>
            /\ units["app"].singletonStore[<<"counter">>]
                    = Num(<<CountText(Cardinality(Bumps))>>)
            /\ \A r \in Counted, q \in Counted :
                    r # q => Get(requests[r].ctx, <<"requestNumber">>)
                                # Get(requests[q].ctx, <<"requestNumber">>)
            /\ \A r \in Counted :
                    /\ Get(requests[r].ctx, <<"requestNumber">>).t = "number"
                    /\ Get(requests[r].ctx, <<"requestNumber">>) # Num(<<"0">>))
    /\ [][(setup' = setup /\ <<"counter">> \in DOMAIN units["app"].singletonStore) =>
            /\ <<"counter">> \in DOMAIN units'["app"].singletonStore
            /\ units'["app"].singletonStore[<<"counter">>] =
                    IF \E r \in DOMAIN requests :
                            /\ Len(requests'[r].log) > Len(requests[r].log)
                            /\ IncrementsNow(requests'[r].log[Len(requests'[r].log)].fn)
                    THEN Incremented(units["app"].singletonStore[<<"counter">>])
                    ELSE units["app"].singletonStore[<<"counter">>]]_vars

\* two requests each awaited their increment at once, the second called before
\* the first's call had settled: the counter is 2 and they hold 1 and 2
C37_Witness ==
    /\ CounterKept
    /\ Get(units["app"].singletonStore, <<"counter">>) = Num(<<"2">>)
    /\ requests[1].pc = "derive" /\ requests[2].pc = "derive"
    /\ ~requests[1].log[Len(requests[1].log)].settled
    /\ ~requests[2].log[Len(requests[2].log)].settled
    /\ requests[1].held = Num(<<"1">>)
    /\ requests[2].held = Num(<<"2">>)

\* both requests are past the derive stage with the numbers 1 and 2
C37_BothCounted ==
    /\ Counted = {1, 2}
    /\ Get(requests[1].ctx, <<"requestNumber">>) = Num(<<"1">>)
    /\ Get(requests[2].ctx, <<"requestNumber">>) = Num(<<"2">>)
    /\ Get(units["app"].singletonStore, <<"counter">>) = Num(<<"2">>)

\* the fields the context of request r is seeded with: the transport's own and
\* the store of the route's unit
Seeded(r) ==
    (<<"store">> :> StoreOf(requests[r].route.unit))
        @@ (<<"res">> :> Res) @@ (<<"req">> :> ReqOf(r))

\* the decorators the Decorate stage of request r copied: those registered on
\* the unit before the request began, for a route that holds the decorators
Decorators(r) ==
    IF requests[r].route.decorated
    THEN [k \in {setup[i].arg : i \in {j \in 1..requests[r].startedAt :
                                        /\ setup[j].op = "decorate"
                                        /\ setup[j].unit = requests[r].route.unit}}
            |-> Str(<<"dec">>)]
    ELSE EmptyObject

\* C38: on the context handed to the handler every key holds the value of the
\* latest stage that gave it, in the order seeded fields (store and the
\* transport's fields), decorators, derive outputs, resolve outputs: a resolve
\* output wins over everything, a derive output over decorators and seeded
\* fields, a decorator over a seeded field, for every order of the decorate(),
\* derive() and resolve() calls at setup.
C38_LatestStageWins ==
    \A r \in Handled :
        LET ctx == HandlerCtx(r)
            derived == FnsOf(StepsOf(r, "derive"))
            resolved == FnsOf(StepsOf(r, "resolve"))
        IN  /\ DOMAIN ctx = DOMAIN Seeded(r) \cup DOMAIN Decorators(r)
                                \cup KeysOf(derived) \cup KeysOf(resolved)
            /\ \A k \in DOMAIN ctx :
                    ctx[k] = IF k \in KeysOf(resolved) THEN LastOutput(resolved, k)
                             ELSE IF k \in KeysOf(derived) THEN LastOutput(derived, k)
                             ELSE IF k \in DOMAIN Decorators(r) THEN Decorators(r)[k]
                             ELSE Seeded(r)[k]

\* resolve(r1) was called before derive(over) and decorate("c") before the
\* route: the handler got c from the resolve function, store and a from the
\* derive function
C38_Witness ==
    \E r \in Handled :
        /\ Len(setup) = 4
        /\ setup[1] = SetupCall("resolve", "app", "r1")
        /\ setup[2] = SetupCall("derive", "app", "over")
        /\ setup[3] = SetupCall("decorate", "app", <<"c">>)
        /\ Decorators(r) = (<<"c">> :> Str(<<"dec">>))
        /\ HandlerCtx(r)[<<"c">>] = Str(<<"r1">>)
        /\ HandlerCtx(r)[<<"store">>] = Str(<<"over">>)
        /\ HandlerCtx(r)[<<"a">>] = Str(<<"over">>)

\* a decorator named store took the place of the seeded store
C38_DecoratorOverSeeded ==
    \E r \in Handled :
        /\ Decorators(r) = (<<"store">> :> Str(<<"dec">>))
        /\ HandlerCtx(r)[<<"store">>] = Str(<<"dec">>)
        /\ HandlerCtx(r)[<<"req">>] = ReqOf(r)

----------------------------------------------------------------------------
(* Claims about a mount as a copy *)

\* this step is a setup call made on unit u
IsSetupOn(u) ==
    /\ Len(setup') = Len(setup) + 1
    /\ setup'[Len(setup')].unit = u

\* function fn was registered with op on unit p by a setup call that a later
\* call host.use(p) followed
MountedFrom(host, op, fn) ==
    \E j \in 1..Len(setup) : \E i \in 1..(j - 1) :
        /\ setup[j].op = "use" /\ setup[j].unit = host
        /\ setup[i] = SetupCall(op, setup[j].arg, fn)

\* function fn was registered with op on unit u itself
OwnFunction(u, op, fn) ==
    \E i \in 1..Len(setup) : setup[i] = SetupCall(op, u, fn)

\* C39: host.use(plugin) copies once: a state(), derive() or resolve() call on
\* the mounted unit changes nothing of any other unit, so what is registered
\* on it after use() returned is not in the host's store or lists; the
\* functions called on a request of the host are the host's own and those the
\* mounted unit held when it was mounted; and a write to the host's store, by
\* a setup call or by a function of a request, leaves the mounted unit's store
\* as it was.
C39_MountCopiesOnce ==
    /\ [][\A u \in DOMAIN units :
            /\ IsSetupOn(u) => \A h \in DOMAIN units \ {u} : units'[h] = units[h]
            /\ (setup' = setup /\ units'[u].singletonStore # units[u].singletonStore) =>
                    /\ \E r \in DOMAIN requests :
                            /\ requests'[r] # requests[r]
                            /\ requests'[r].route.unit = u
                    /\ \A h \in DOMAIN units \ {u} : units'[h] = units[h]]_vars
    /\ [](\A r \in DOMAIN requests : \A i \in 1..Len(requests[r].log) :
            LET s == requests[r].log[i]
            IN  s.stage \in {"derive", "resolve"} =>
                    \/ OwnFunction(requests[r].route.unit, s.stage, s.fn)
                    \/ MountedFrom(requests[r].route.unit, s.stage, s.fn))

\* derive(f2) and state("sessions") were called on the plugin after
\* app.use(plugin): a request of the app ran no derive function and the app's
\* store has no sessions key
C39_Witness ==
    /\ setup = <<SetupCall("use", "app", "plugin"),
                 SetupCall("derive", "plugin", "f2"),
                 SetupCall("state", "plugin", <<"sessions">>),
                 SetupCall("route", "app", "void")>>
    /\ requests[1].pc = "done"
    /\ StepsOf(1, "derive") = <<>>
    /\ units["app"].deriveFunctions = <<>>
    /\ units["plugin"].deriveFunctions = <<"f2">>
    /\ <<"sessions">> \notin DOMAIN units["app"].singletonStore
    /\ <<"sessions">> \in DOMAIN units["plugin"].singletonStore

\* the app mounted a plugin with counter 0 and a request of the app
\* incremented the counter: the app's store holds 1, the plugin's 0
C39_HostWriteUnseen ==
    /\ setup = <<SetupCall("state", "plugin", <<"counter">>),
                 SetupCall("use", "app", "plugin"),
                 SetupCall("derive", "app", "bump"),
                 SetupCall("route", "app", "void")>>
    /\ requests[1].pc = "done"
    /\ units["app"].singletonStore[<<"counter">>] = Num(<<"1">>)
    /\ units["plugin"].singletonStore[<<"counter">>] = Num(<<"0">>)

\* the requests whose pipeline rejected
Failed == {r \in DOMAIN requests : requests[r].pc = "rejected"}

\* the increments request r made before its pipeline rejected
BumpsOf(r) == {b \in Bumps : b[1] = r}

\* C40: nothing is rolled back when a pipeline rejects: the step in which a
\* request rejects leaves every store as it is, no later step takes an
\* increment back, and the store's counter still counts the increments the
\* rejected requests made, so a request that increments afterwards gets a
\* number above them.
C40_NoRollback ==
    /\ [][\A r \in DOMAIN requests :
            (requests'[r].pc = "rejected" /\ requests[r].pc # "rejected") =>
                units' = units]_vars
    /\ [][(Failed # {} /\ setup' = setup) =>
            \A u \in DOMAIN units : \A k \in DOMAIN units[u].singletonStore :
                /\ k \in DOMAIN units'[u].singletonStore
                /\ units'[u].singletonStore[k] \in
                        {units[u].singletonStore[k],
                         Incremented(units[u].singletonStore[k])}]_vars
    /\ [](CounterKept =>
            \A r \in Failed :
                /\ Cardinality(BumpsOf(r)) <= Cardinality(Bumps)
                /\ units["app"].singletonStore[<<"counter">>]
                        = Num(<<CountText(Cardinality(BumpsOf(r))
                                    + Cardinality(Bumps \ BumpsOf(r)))>>)
                /\ \A q \in DOMAIN requests \ Failed :
                        (q > r /\ requests[q].held # Undefined
                            /\ requests[r].held # Undefined) =>
                                requests[q].held # requests[r].held)

\* request 1 incremented the counter and its handler then threw; request 2
\* got the number 2 and the counter holds 2
C40_Witness ==
    /\ CounterKept
    /\ requests[1].pc = "rejected"
    /\ requests[1].log[Len(requests[1].log)].stage = "handler"
    /\ Cardinality(BumpsOf(1)) = 1
    /\ requests[2].pc # "rejected"
    /\ Get(requests[2].ctx, <<"requestNumber">>) = Num(<<"2">>)
    /\ units["app"].singletonStore[<<"counter">>] = Num(<<"2">>)

====
